---- MODULE Spec2Model ----
(***************************************************************************)
(* Collaborative canvas: the server-authoritative room replication engine. *)
(* The model follows server/src/server.ts (session dispatcher),            *)
(* server/src/rooms.ts (Room, RoomsManager), server/src/drawing-state.ts   *)
(* (DrawingState), server/src/protocol.ts (validators) and                 *)
(* server/src/storage.ts (snapshot files), and client/src/net/socket.ts    *)
(* with client/src/state/roomStore.ts (reorder buffer and mirror).         *)
(*                                                                         *)
(* Not modelled: display names, the createdAt / updatedAt / ts wall-clock  *)
(* stamps of stroke records and envelopes (no branch of the code reads     *)
(* them), and console logging.                                             *)
(***************************************************************************)
EXTENDS Integers, Sequences, FiniteSets, TLC

VARIABLES
    rooms,      \* RoomsManager.rooms: roomId -> Room (partial function)
    disk,       \* data directory: file name -> parsed snapshot (partial function)
    connState,  \* per socket: "open" | "closed"
    socketRoom, \* socket.data.roomId: a sequence of length 0 (null) or 1
    sockRooms,  \* socket.io adapter: the broadcast rooms each socket is in
    now,        \* Date.now(), in ms
    envLog,     \* roomId -> every envelope emitted by io.to(roomId).emit("op", env)
    created,    \* roomId -> number of Room objects constructed so far for the id
    out,        \* what the last handler emitted: ack, sync, envelope, notifications
    inbox,      \* per socket: the sync and op frames emitted to it and not yet received
    client      \* per socket: the browser's RealtimeClient and roomStore

vars == <<rooms, disk, connState, socketRoom, sockRooms, now, envLog, created, out,
          inbox, client>>

----------------------------------------------------------------------------
(* Bounds of the model *)

MaxPts == 2        \* longest point list a stroke may reach
MaxSeq == 4        \* largest seq a room may assign (Spec)
DrawMaxSeq == 7    \* largest seq a room may assign (SpecDraw)
ClientMaxSeq == 4  \* largest seq a room may assign (SpecClient)
FaultMaxSeq == 3   \* largest seq a room may assign (SpecFault, SpecBoot)
BatchMaxSeq == 3   \* largest room seq reached with long point batches (SpecBatch)
BatchOver == 50    \* the longest stroke_points request has MaxBatch + BatchOver points
CursorMaxSeq == 2  \* largest room seq reached next to cursor messages (SpecCursor)
IdentMaxSeq == 3   \* largest room seq reached with client ids (SpecIdent)
RoomsMaxSeq == 2   \* largest room seq reached with two rooms (SpecRooms)
MaxBoots == 2      \* Room objects built for one id before the last restart
MaxN == 3          \* longest run of undo requests, then of redo requests (C14)
MaxTicks == 2      \* number of clock advances
TickMs == 1000     \* how far one clock advance moves Date.now()
StartTime == 5000  \* Date.now() when the server boots (any value >= 2000)

Conns == {"c1", "c2"}
StrokeIds == {"s1", "s2"}
LifeStrokeIds == {"s1"}
RoomA == <<"r", "/", "1">>
RoomIds == {RoomA}
RoomB == <<"r", "_", "1">>   \* a second room id; roomPath maps it where it maps RoomA
BothRooms == {RoomA, RoomB}

(* Program constants *)
PersistEveryMs == 2000
MaxBatch == 200
MinWidth == 1
MaxWidth == 64
PaletteSize == 10

SafeChars == {"r", "a", "b", "1", "2", "_", "-"}

----------------------------------------------------------------------------
(* Small helpers *)

Last(s) == s[Len(s)]

Front(s) == SubSeq(s, 1, Len(s) - 1)

Range(s) == {s[i] : i \in DOMAIN s}

IsPrefix(s, t) == Len(s) <= Len(t) /\ SubSeq(t, 1, Len(s)) = s

Min(a, b) == IF a < b THEN a ELSE b

Max(a, b) == IF a > b THEN a ELSE b

Restrict(f, S) == [x \in S |-> f[x]]

----------------------------------------------------------------------------
(* protocol.ts: validators *)

Tools == {"brush", "eraser", "rectangle", "circle", "square"}

\* typeof v === "string" && v.length > 0 (strings are the only non-numbers here)
isStr(v) == v # ""

isNum(v) == v \in Int

isTool(v) == v \in Tools

isPts(v) == \A i \in DOMAIN v : Len(v[i]) = 2 /\ isNum(v[i][1]) /\ isNum(v[i][2])

\* Math.max(1, Math.min(64, raw.w))
ClampWidth(w) == Max(MinWidth, Min(MaxWidth, w))

\* mutant: the last 200 points are kept
CapPtsTail(pts) == SubSeq(pts, Max(1, Len(pts) - MaxBatch + 1), Len(pts))

\* raw.pts.slice(0, 200)
CapPts(pts) == SubSeq(pts, 1, Min(MaxBatch, Len(pts)))

Invalid(err) == [ok |-> FALSE, err |-> err]

validateClientOp(raw) ==
    IF ~isStr(raw.t) THEN Invalid("op.t is required")
    ELSE IF raw.t = "undo" THEN [ok |-> TRUE, v |-> [t |-> "undo"]]
    ELSE IF raw.t = "redo" THEN [ok |-> TRUE, v |-> [t |-> "redo"]]
    ELSE IF raw.t = "stroke_start" THEN
        IF ~isStr(raw.strokeId) THEN Invalid("strokeId required")
        ELSE IF ~isTool(raw.tool) THEN Invalid("tool must be brush|eraser|rectangle|circle|square")
        ELSE IF ~isStr(raw.color) THEN Invalid("color required")
        ELSE IF ~isNum(raw.w) THEN Invalid("w required")
        ELSE IF ~isNum(raw.x) \/ ~isNum(raw.y) THEN Invalid("x,y required")
        ELSE [ok |-> TRUE,
              v |-> [t |-> "stroke_start", strokeId |-> raw.strokeId, tool |-> raw.tool,
                     color |-> raw.color, w |-> ClampWidth(raw.w), x |-> raw.x, y |-> raw.y]]
    ELSE IF raw.t = "stroke_points" THEN
        IF ~isStr(raw.strokeId) THEN Invalid("strokeId required")
        ELSE IF ~isPts(raw.pts) THEN Invalid("pts must be array of [x,y]")
        ELSE [ok |-> TRUE,
              v |-> [t |-> "stroke_points", strokeId |-> raw.strokeId, pts |-> CapPts(raw.pts)]]
    ELSE IF raw.t = "stroke_end" THEN
        IF ~isStr(raw.strokeId) THEN Invalid("strokeId required")
        ELSE [ok |-> TRUE, v |-> [t |-> "stroke_end", strokeId |-> raw.strokeId]]
    ELSE Invalid("unknown op type")

\* isStr on a room id, which the model keeps as a sequence of characters
isRoomId(v) == Len(v) > 0

\* raw.mode === "view" ? "view" : "edit"; clientId kept when it is a string
validateJoin(raw) ==
    IF ~isRoomId(raw.roomId) THEN Invalid("roomId is required")
    ELSE [ok |-> TRUE,
          v |-> [roomId |-> raw.roomId,
                 mode |-> IF raw.mode = "view" THEN "view" ELSE "edit",
                 clientId |-> raw.clientId]]

----------------------------------------------------------------------------
(* drawing-state.ts: DrawingState *)

\* new DrawingState()
EmptyMap == [x \in {} |-> x]

EmptyDrawing ==
    [strokes |-> EmptyMap, committed |-> {}, undone |-> {},
     committedOrder |-> <<>>, redoStack |-> <<>>]

Fail(d, err) == [ok |-> FALSE, err |-> err, broadcast |-> <<>>, d |-> d]

Done(d, bc) == [ok |-> TRUE, err |-> "", broadcast |-> bc, d |-> d]

\* mutant: a new stroke clears the redo stack
applyStrokeStartClears(d, userId, op) ==
    IF op.strokeId \in DOMAIN d.strokes THEN Fail(d, "strokeId already exists")
    ELSE LET rec == [id |-> op.strokeId, userId |-> userId, tool |-> op.tool,
                     color |-> op.color, w |-> op.w, points |-> << <<op.x, op.y>> >>,
                     committed |-> FALSE]
         IN  Done([d EXCEPT !.strokes = (op.strokeId :> rec) @@ d.strokes,
                            !.redoStack = <<>>],
                  <<op>>)

\* mutant: the exists check is missing, the record is overwritten
applyStrokeStartOverwrite(d, userId, op) ==
    LET rec == [id |-> op.strokeId, userId |-> userId, tool |-> op.tool,
                color |-> op.color, w |-> op.w, points |-> << <<op.x, op.y>> >>,
                committed |-> FALSE]
    IN  Done([d EXCEPT !.strokes = (op.strokeId :> rec) @@ d.strokes], <<op>>)

applyStrokeStart(d, userId, op) ==
    IF op.strokeId \in DOMAIN d.strokes THEN Fail(d, "strokeId already exists")
    ELSE LET rec == [id |-> op.strokeId, userId |-> userId, tool |-> op.tool,
                     color |-> op.color, w |-> op.w, points |-> << <<op.x, op.y>> >>,
                     committed |-> FALSE]
         IN  Done([d EXCEPT !.strokes = (op.strokeId :> rec) @@ d.strokes], <<op>>)

\* mutant: the committed check is missing
applyStrokePointsNoCheck(d, userId, op) ==
    IF op.strokeId \notin DOMAIN d.strokes THEN Fail(d, "unknown strokeId")
    ELSE IF d.strokes[op.strokeId].userId # userId THEN Fail(d, "stroke owned by another user")
    ELSE Done([d EXCEPT !.strokes[op.strokeId].points = @ \o op.pts], <<op>>)

applyStrokePoints(d, userId, op) ==
    IF op.strokeId \notin DOMAIN d.strokes THEN Fail(d, "unknown strokeId")
    ELSE IF d.strokes[op.strokeId].committed THEN Fail(d, "stroke already committed")
    ELSE IF d.strokes[op.strokeId].userId # userId THEN Fail(d, "stroke owned by another user")
    ELSE Done([d EXCEPT !.strokes[op.strokeId].points = @ \o op.pts], <<op>>)

\* mutant: the id is not added to the committed set
applyStrokeEndNoSet(d, userId, op) ==
    IF op.strokeId \notin DOMAIN d.strokes THEN Fail(d, "unknown strokeId")
    ELSE IF d.strokes[op.strokeId].committed THEN Fail(d, "stroke already committed")
    ELSE IF d.strokes[op.strokeId].userId # userId THEN Fail(d, "stroke owned by another user")
    ELSE Done([d EXCEPT !.strokes[op.strokeId].committed = TRUE,
                        !.committedOrder = Append(@, op.strokeId),
                        !.redoStack = <<>>,
                        !.undone = @ \ {op.strokeId}],
              <<op>>)

\* mutant: the redo stack survives a commit
applyStrokeEndKeepsRedo(d, userId, op) ==
    IF op.strokeId \notin DOMAIN d.strokes THEN Fail(d, "unknown strokeId")
    ELSE IF d.strokes[op.strokeId].committed THEN Fail(d, "stroke already committed")
    ELSE IF d.strokes[op.strokeId].userId # userId THEN Fail(d, "stroke owned by another user")
    ELSE Done([d EXCEPT !.strokes[op.strokeId].committed = TRUE,
                        !.committed = @ \cup {op.strokeId},
                        !.committedOrder = Append(@, op.strokeId),
                        !.undone = @ \ {op.strokeId}],
              <<op>>)

\* mutant: the owner check is missing
applyStrokeEndNoOwner(d, userId, op) ==
    IF op.strokeId \notin DOMAIN d.strokes THEN Fail(d, "unknown strokeId")
    ELSE IF d.strokes[op.strokeId].committed THEN Fail(d, "stroke already committed")
    ELSE Done([d EXCEPT !.strokes[op.strokeId].committed = TRUE,
                        !.committed = @ \cup {op.strokeId},
                        !.committedOrder = Append(@, op.strokeId),
                        !.redoStack = <<>>,
                        !.undone = @ \ {op.strokeId}],
              <<op>>)

applyStrokeEnd(d, userId, op) ==
    IF op.strokeId \notin DOMAIN d.strokes THEN Fail(d, "unknown strokeId")
    ELSE IF d.strokes[op.strokeId].committed THEN Fail(d, "stroke already committed")
    ELSE IF d.strokes[op.strokeId].userId # userId THEN Fail(d, "stroke owned by another user")
    ELSE Done([d EXCEPT !.strokes[op.strokeId].committed = TRUE,
                        !.committed = @ \cup {op.strokeId},
                        !.committedOrder = Append(@, op.strokeId),
                        !.redoStack = <<>>,
                        !.undone = @ \ {op.strokeId}],
              <<op>>)

\* mutant: the scan runs from the head, so the oldest active stroke is chosen
UndoScanOldest(d, i) ==
    LET active == {j \in 1..i : /\ d.committedOrder[j] \in d.committed
                                /\ d.committedOrder[j] \notin d.undone}
    IN  IF active = {} THEN 0 ELSE CHOOSE j \in active : \A k \in active : j <= k

\* mutant: the scan does not skip strokes that are already undone
RECURSIVE UndoScanNoSkip(_, _)
UndoScanNoSkip(d, i) ==
    IF i = 0 THEN 0
    ELSE IF d.committedOrder[i] \notin d.committed THEN UndoScanNoSkip(d, i - 1)
    ELSE i

\* the undo loop: i runs from committedOrder.length - 1 down to 0; 0 = nothing found
RECURSIVE UndoScan(_, _)
UndoScan(d, i) ==
    IF i = 0 THEN 0
    ELSE IF d.committedOrder[i] \notin d.committed THEN UndoScan(d, i - 1)
    ELSE IF d.committedOrder[i] \in d.undone THEN UndoScan(d, i - 1)
    ELSE i

\* mutant: undo deletes the stroke from the history instead of keeping a tombstone
applyUndoRemoves(d) ==
    LET i == UndoScan(d, Len(d.committedOrder)) IN
    IF i = 0 THEN Done(d, <<>>)
    ELSE LET id == d.committedOrder[i] IN
         Done([d EXCEPT !.undone = @ \cup {id}, !.redoStack = Append(@, id),
                        !.committedOrder = SubSeq(@, 1, i - 1) \o SubSeq(@, i + 1, Len(@))],
              << [t |-> "undo", strokeId |-> id] >>)

\* mutant: undo takes a stroke of the stroke map, committed or not
applyUndoAnyStroke(d) ==
    LET cands == DOMAIN d.strokes \ d.undone IN
    IF cands = {} THEN Done(d, <<>>)
    ELSE LET id == CHOOSE x \in cands : TRUE IN
         Done([d EXCEPT !.undone = @ \cup {id}, !.redoStack = Append(@, id)],
              << [t |-> "undo", strokeId |-> id] >>)

\* mutant: undo marks the stroke but does not push it on the redo stack
applyUndoNoPush(d) ==
    LET i == UndoScan(d, Len(d.committedOrder)) IN
    IF i = 0 THEN Done(d, <<>>)
    ELSE LET id == d.committedOrder[i] IN
         Done([d EXCEPT !.undone = @ \cup {id}], << [t |-> "undo", strokeId |-> id] >>)

applyUndo(d) ==
    LET i == UndoScan(d, Len(d.committedOrder)) IN
    IF i = 0 THEN Done(d, <<>>)
    ELSE LET id == d.committedOrder[i] IN
         Done([d EXCEPT !.undone = @ \cup {id}, !.redoStack = Append(@, id)],
              << [t |-> "undo", strokeId |-> id] >>)

\* mutant: the top of the stack is read but never popped
RedoLoopPeek(d) ==
    IF Len(d.redoStack) = 0 THEN Done(d, <<>>)
    ELSE LET id == Last(d.redoStack) IN
         IF id \notin d.committed \/ id \notin d.undone THEN Done(d, <<>>)
         ELSE Done([d EXCEPT !.undone = @ \ {id}], << [t |-> "redo", strokeId |-> id] >>)

\* mutant: shift() instead of pop(): the oldest undone stroke is redone first
RECURSIVE RedoLoopFifo(_)
RedoLoopFifo(d) ==
    IF Len(d.redoStack) = 0 THEN Done(d, <<>>)
    ELSE LET id == Head(d.redoStack)
             popped == [d EXCEPT !.redoStack = Tail(@)]
         IN  IF id \notin popped.committed THEN RedoLoopFifo(popped)
             ELSE IF id \notin popped.undone THEN RedoLoopFifo(popped)
             ELSE Done([popped EXCEPT !.undone = @ \ {id}],
                       << [t |-> "redo", strokeId |-> id] >>)

\* the redo loop: pops until an entry is committed and undone
RECURSIVE RedoLoop(_)
RedoLoop(d) ==
    IF Len(d.redoStack) = 0 THEN Done(d, <<>>)
    ELSE LET id == Last(d.redoStack)
             popped == [d EXCEPT !.redoStack = Front(@)]
         IN  IF id \notin popped.committed THEN RedoLoop(popped)
             ELSE IF id \notin popped.undone THEN RedoLoop(popped)
             ELSE Done([popped EXCEPT !.undone = @ \ {id}],
                       << [t |-> "redo", strokeId |-> id] >>)

applyRedo(d) == RedoLoop(d)

applyClientOp(d, userId, op) ==
    CASE op.t = "stroke_start" -> applyStrokeStart(d, userId, op)
      [] op.t = "stroke_points" -> applyStrokePoints(d, userId, op)
      [] op.t = "stroke_end" -> applyStrokeEnd(d, userId, op)
      [] op.t = "undo" -> applyUndo(d)
      [] op.t = "redo" -> applyRedo(d)
      [] OTHER -> Fail(d, "unhandled op")

\* mutant: the snapshot leaves out the strokes still being drawn
getSnapshotNoProgress(d) ==
    [strokes |-> {d.strokes[id] : id \in {x \in DOMAIN d.strokes : d.strokes[x].committed}},
     undone |-> d.undone,
     inProgress |-> {}]

\* getSnapshot(): committed strokes, undone ids, in-progress strokes
getSnapshot(d) ==
    [strokes |-> {d.strokes[id] : id \in {x \in DOMAIN d.strokes : d.strokes[x].committed}},
     undone |-> d.undone,
     inProgress |-> {d.strokes[id] : id \in {x \in DOMAIN d.strokes : ~d.strokes[x].committed}}]

\* the ids of committedOrder whose record exists and is committed, in order
RECURSIVE CommittedStrokes(_, _)
CommittedStrokes(d, order) ==
    IF order = <<>> THEN <<>>
    ELSE LET id == Head(order) IN
         IF id \in DOMAIN d.strokes /\ d.strokes[id].committed
         THEN <<d.strokes[id]>> \o CommittedStrokes(d, Tail(order))
         ELSE CommittedStrokes(d, Tail(order))

\* Array.from(set)
RECURSIVE ArrayFrom(_)
ArrayFrom(set) ==
    IF set = {} THEN <<>>
    ELSE LET x == CHOOSE y \in set : TRUE IN <<x>> \o ArrayFrom(set \ {x})

\* mutant: every record of the stroke map is exported
exportPersistedAllStrokes(d, seq) ==
    [seq |-> seq,
     strokes |-> LET ids == ArrayFrom(DOMAIN d.strokes) IN
                 [i \in DOMAIN ids |-> d.strokes[ids[i]]],
     undone |-> ArrayFrom(d.undone),
     committedOrder |-> d.committedOrder,
     redoStack |-> d.redoStack]

exportPersisted(d, seq) ==
    [seq |-> seq,
     strokes |-> CommittedStrokes(d, d.committedOrder),
     undone |-> ArrayFrom(d.undone),
     committedOrder |-> d.committedOrder,
     redoStack |-> d.redoStack]

\* the stroke map after the loop ds.strokes.set(s.id, s): the last record of an id wins
PersistedStrokes(p) ==
    [id \in {p.strokes[i].id : i \in DOMAIN p.strokes} |->
        LET i == CHOOSE j \in DOMAIN p.strokes :
                     /\ p.strokes[j].id = id
                     /\ \A k \in DOMAIN p.strokes : p.strokes[k].id = id => k <= j
        IN  p.strokes[i]]

\* fromPersisted throws a TypeError: p.strokes, p.committedOrder or p.redoStack is
\* undefined, hence not iterable (new Set(undefined) is the empty set)
fromPersistedThrows(p) ==
    \/ "strokes" \notin DOMAIN p
    \/ "committedOrder" \notin DOMAIN p
    \/ "redoStack" \notin DOMAIN p

\* mutant: the redo stack is not restored
fromPersistedNoRedo(p) ==
    [strokes |-> PersistedStrokes(p),
     committed |-> {p.strokes[i].id : i \in DOMAIN p.strokes},
     undone |-> IF "undone" \in DOMAIN p THEN Range(p.undone) ELSE {},
     committedOrder |-> p.committedOrder,
     redoStack |-> <<>>]

\* every persisted stroke is registered as is and added to the committed set
fromPersisted(p) ==
    [strokes |-> PersistedStrokes(p),
     committed |-> {p.strokes[i].id : i \in DOMAIN p.strokes},
     undone |-> IF "undone" \in DOMAIN p THEN Range(p.undone) ELSE {},
     committedOrder |-> p.committedOrder,
     redoStack |-> p.redoStack]

----------------------------------------------------------------------------
(* storage.ts: snapshot files *)

\* roomId.replace(/[^a-zA-Z0-9_-]/g, "_"); the file is room_<safe>.json
roomPath(roomId) ==
    [i \in DOMAIN roomId |-> IF roomId[i] \in SafeChars THEN roomId[i] ELSE "_"]

\* fp + ".tmp"
TmpPath(fp) == fp \o <<".tmp">>

\* file contents: the complete text JSON.stringify wrote for an object
JSONstringify(data) == [kind |-> "json", obj |-> TRUE, v |-> data]

\* file contents: the beginning of a JSON text (a write that did not finish), a
\* text that is not JSON, the JSON text of a number
Torn == [kind |-> "torn"]
Garbage == [kind |-> "garbage"]
NonObject == [kind |-> "json", obj |-> FALSE]

\* JSON.parse throws on this text
ParseThrows(text) == text.kind # "json"

\* the parsed snapshot as a sequence of length 1, or <<>> for null: the file is
\* missing, JSON.parse threw, or the value is not an object
loadRoom(files, roomId) ==
    IF roomPath(roomId) \notin DOMAIN files THEN <<>>
    ELSE LET text == files[roomPath(roomId)] IN
         IF ParseThrows(text) THEN <<>>
         ELSE IF ~text.obj THEN <<>>
         ELSE <<text.v>>

\* write the temp file, then rename it over the final path
saveRoom(files, roomId, data) ==
    LET fp == roomPath(roomId)
        written == (TmpPath(fp) :> JSONstringify(data)) @@ files
    IN  (fp :> written[TmpPath(fp)]) @@ Restrict(written, DOMAIN written \ {TmpPath(fp)})

\* mutant: the snapshot is written over the final path, without a temp file
saveRoomFailsInPlace(files, roomId, data, fault) ==
    (roomPath(roomId) :> (IF fault = "write" THEN Torn ELSE JSONstringify(data))) @@ files

\* the files a saveRoom call leaves when it does not return: fault = "write", the
\* write of the temp file stops half way (I/O error or the process is killed);
\* fault = "rename", the temp file is complete and the rename does not happen
saveRoomFails(files, roomId, data, fault) ==
    (TmpPath(roomPath(roomId)) :> (IF fault = "write" THEN Torn ELSE JSONstringify(data)))
        @@ files

----------------------------------------------------------------------------
(* rooms.ts: Room and RoomsManager *)

\* new Room(roomId)
NewRoom(files, roomId) ==
    LET persisted == loadRoom(files, roomId) IN
    IF persisted # <<>>
    THEN [seq |-> IF "seq" \in DOMAIN persisted[1] THEN persisted[1].seq ELSE 0,
          users |-> EmptyMap,
          drawing |-> fromPersisted(persisted[1]), lastPersistAt |-> 0]
    ELSE [seq |-> 0, users |-> EmptyMap, drawing |-> EmptyDrawing, lastPersistAt |-> 0]

\* new Room(roomId) throws
NewRoomThrows(files, roomId) ==
    LET persisted == loadRoom(files, roomId) IN
    persisted # <<>> /\ fromPersistedThrows(persisted[1])

\* mutant: returns this.seq without incrementing it
bumpSeqStale(room) == room

bumpSeq(room) == [room EXCEPT !.seq = @ + 1]

listUsers(room) ==
    {[userId |-> room.users[c].userId, color |-> room.users[c].color,
      mode |-> room.users[c].mode] : c \in DOMAIN room.users}

\* the colours pickColor may return: the first unused palette entry, else any entry
pickColor(room) ==
    LET used == {room.users[c].color : c \in DOMAIN room.users}
        free == (1..PaletteSize) \ used
    IN  IF free # {} THEN {CHOOSE c \in free : \A o \in free : c <= o}
        ELSE 1..PaletteSize

addUser(room, socketId, userId, color, mode) ==
    [room EXCEPT !.users =
        (socketId :> [userId |-> userId, color |-> color, mode |-> mode]) @@ @]

removeUser(room, socketId) ==
    [room EXCEPT !.users = Restrict(@, DOMAIN @ \ {socketId})]

isEmpty(room) == DOMAIN room.users = {}

\* mutant: the 2000 ms window is not checked
maybePersistNoThrottle(room, files, roomId, t) ==
    [room |-> [room EXCEPT !.lastPersistAt = t],
     files |-> saveRoom(files, roomId, exportPersisted(room.drawing, room.seq))]

\* mutant: the snapshot is taken with the seq of the previous envelope
maybePersistStaleSeq(room, files, roomId, t) ==
    IF t - room.lastPersistAt < PersistEveryMs
    THEN [room |-> room, files |-> files]
    ELSE [room |-> [room EXCEPT !.lastPersistAt = t],
          files |-> saveRoom(files, roomId, exportPersisted(room.drawing, room.seq - 1))]

\* the room after maybePersist and the files after it
maybePersist(room, files, roomId, t) ==
    IF t - room.lastPersistAt < PersistEveryMs
    THEN [room |-> room, files |-> files]
    ELSE [room |-> [room EXCEPT !.lastPersistAt = t],
          files |-> saveRoom(files, roomId, exportPersisted(room.drawing, room.seq))]

\* RoomsManager.getOrCreate: the directory after the call
getOrCreate(dir, files, roomId) ==
    IF roomId \in DOMAIN dir THEN dir
    ELSE (roomId :> NewRoom(files, roomId)) @@ dir

\* RoomsManager.cleanup
cleanup(dir, roomId) ==
    IF roomId \notin DOMAIN dir THEN dir
    ELSE IF isEmpty(dir[roomId]) THEN Restrict(dir, DOMAIN dir \ {roomId})
    ELSE dir

----------------------------------------------------------------------------
(* client/src/state/roomStore.ts: Store *)

\* for (const user of sync.users) u.set(user.userId, user)
UsersById(users) ==
    [k \in {u.userId : u \in users} |-> CHOOSE u \in users : u.userId = k]

\* for (const s of recs) map.set(s.id, cloneStroke(s))
StrokesById(recs) ==
    [k \in {rec.id : rec \in recs} |-> CHOOSE rec \in recs : rec.id = k]

\* Store.state as constructed; roomId is a sequence of length 0 (null) or 1
NewState ==
    [roomId |-> <<>>, seq |-> 0, users |-> EmptyMap, strokes |-> EmptyMap,
     undone |-> {}, inProgress |-> EmptyMap]

\* mutant: the in-progress strokes of the sync frame are dropped
applySyncNoProgress(st, sync) ==
    [roomId |-> <<sync.roomId>>, seq |-> sync.seq,
     users |-> UsersById(sync.users),
     strokes |-> StrokesById(sync.strokes),
     undone |-> sync.undone,
     inProgress |-> EmptyMap]

applySync(st, sync) ==
    [roomId |-> <<sync.roomId>>, seq |-> sync.seq,
     users |-> UsersById(sync.users),
     strokes |-> StrokesById(sync.strokes),
     undone |-> sync.undone,
     inProgress |-> StrokesById(sync.inProgress)]

applyOp(st, op, by) ==
    CASE op.t = "stroke_start" ->
            LET rec == [id |-> op.strokeId, userId |-> by, tool |-> op.tool,
                        color |-> op.color, w |-> op.w, points |-> << <<op.x, op.y>> >>,
                        committed |-> FALSE]
            IN  [st EXCEPT !.inProgress = (op.strokeId :> rec) @@ @]
      [] op.t = "stroke_points" ->
            IF op.strokeId \notin DOMAIN st.inProgress THEN st
            ELSE [st EXCEPT !.inProgress[op.strokeId].points = @ \o op.pts]
      [] op.t = "stroke_end" ->
            IF op.strokeId \notin DOMAIN st.inProgress THEN st
            ELSE LET rec == [st.inProgress[op.strokeId] EXCEPT !.committed = TRUE] IN
                 [st EXCEPT !.inProgress = Restrict(@, DOMAIN @ \ {op.strokeId}),
                            !.strokes = (op.strokeId :> rec) @@ @,
                            !.undone = @ \ {op.strokeId}]
      [] op.t = "undo" -> [st EXCEPT !.undone = @ \cup {op.strokeId}]
      [] op.t = "redo" -> [st EXCEPT !.undone = @ \ {op.strokeId}]
      [] OTHER -> st

applyEnvelope(st, env) == applyOp([st EXCEPT !.seq = env.seq], env.op, env.by)

----------------------------------------------------------------------------
(* client/src/net/socket.ts: RealtimeClient *)

\* a RealtimeClient and its roomStore as constructed. base and applied are history:
\* the seq of the last sync frame applied and the envelopes handed to
\* roomStore.applyEnvelope since then, in order.
NewClient ==
    [expectedSeq |-> 1, pending |-> EmptyMap, state |-> NewState,
     base |-> 0, applied |-> <<>>]

\* s.on("sync")
onSync(cl, sync) ==
    [expectedSeq |-> sync.seq + 1, pending |-> EmptyMap,
     state |-> applySync(cl.state, sync),
     base |-> sync.seq, applied |-> <<>>]

\* roomStore.applyEnvelope(env); this.expectedSeq++
applyNext(cl, env) ==
    [cl EXCEPT !.state = applyEnvelope(@, env),
               !.expectedSeq = @ + 1,
               !.applied = Append(@, env)]

\* mutant: the flushed envelopes are not deleted from pending
RECURSIVE FlushKeeps(_)
FlushKeeps(cl) ==
    IF cl.expectedSeq \in DOMAIN cl.pending
    THEN FlushKeeps(applyNext(cl, cl.pending[cl.expectedSeq]))
    ELSE cl

\* the loop that flushes the contiguous pending envelopes
RECURSIVE Flush(_)
Flush(cl) ==
    IF cl.expectedSeq \in DOMAIN cl.pending
    THEN LET next == cl.pending[cl.expectedSeq] IN
         Flush(applyNext([cl EXCEPT !.pending = Restrict(@, DOMAIN @ \ {cl.expectedSeq})],
                         next))
    ELSE cl

\* mutant: no reorder buffer, an envelope ahead of expectedSeq is applied on arrival
handleEnvelopeNoBuffer(cl, env) ==
    IF cl.state.roomId = <<>> THEN cl
    ELSE IF env.seq < cl.expectedSeq THEN cl
    ELSE [applyNext(cl, env) EXCEPT !.expectedSeq = env.seq + 1]

handleEnvelope(cl, env) ==
    IF cl.state.roomId = <<>> THEN cl
    ELSE IF env.seq < cl.expectedSeq THEN cl
    ELSE IF env.seq > cl.expectedSeq
         THEN [cl EXCEPT !.pending = (env.seq :> env) @@ @]
    ELSE Flush(applyNext(cl, env))

----------------------------------------------------------------------------
(* Inputs the clients may send *)

\* the joins of Spec: either mode, no clientId, and one malformed payload
RawJoins ==
    [roomId : RoomIds, mode : {"edit", "view"}, clientId : {""}]
    \cup {[roomId |-> <<>>, mode |-> "edit", clientId |-> ""]}

RawStarts(ids) ==
    {[t |-> "stroke_start", strokeId |-> id, tool |-> "brush", color |-> "#111",
      w |-> 0, x |-> 0, y |-> 0] : id \in ids}

RawPoints(ids) ==
    {[t |-> "stroke_points", strokeId |-> id, pts |-> << <<1, 1>> >>] : id \in ids}

RawEnds(ids) == {[t |-> "stroke_end", strokeId |-> id] : id \in ids}

RawMalformed ==
    {[t |-> "clear"],
     [t |-> "stroke_points", strokeId |-> "s1", pts |-> << <<1>> >>]}

RawOps(ids) ==
    RawStarts(ids) \cup RawPoints(ids) \cup RawEnds(ids)
    \cup {[t |-> "undo"], [t |-> "redo"]} \cup RawMalformed

\* the joins of SpecDraw: edit mode, no clientId
DrawJoins == [roomId : RoomIds, mode : {"edit"}, clientId : {""}]

----------------------------------------------------------------------------
(* server.ts: the session dispatcher *)

\* the sockets io.to(roomId) reaches
Members(roomId) == {c \in Conns : roomId \in sockRooms[c]}

\* a handler that emits nothing but its ack (a sequence of length 0 or 1)
Quiet(ev, c, ack) ==
    [ev |-> ev, conn |-> c, ack |-> ack, sync |-> <<>>, env |-> <<>>, note |-> <<>>]

Init ==
    /\ rooms = EmptyMap
    /\ disk = EmptyMap
    /\ connState = [c \in Conns |-> "open"]
    /\ socketRoom = [c \in Conns |-> <<>>]
    /\ sockRooms = [c \in Conns |-> {}]
    /\ now = StartTime
    /\ envLog = [r \in RoomIds |-> <<>>]
    /\ created = [r \in RoomIds |-> 0]
    /\ out = Quiet("boot", "", <<>>)
    /\ inbox = [c \in Conns |-> {}]
    /\ client = [c \in Conns |-> NewClient]

\* socket.on("join")
Join(c, raw) ==
    /\ connState[c] = "open"
    /\ LET v == validateJoin(raw) IN
       IF ~v.ok
       THEN /\ out' = Quiet("join", c, <<[ok |-> FALSE, err |-> v.err]>>)
            /\ UNCHANGED <<rooms, disk, connState, socketRoom, sockRooms, now, envLog, created>>
       ELSE IF v.v.roomId \notin DOMAIN rooms /\ NewRoomThrows(disk, v.v.roomId)
       THEN \* the Room constructor throws out of the handler: nothing is set, no ack
            /\ out' = Quiet("join", c, <<>>)
            /\ UNCHANGED <<rooms, disk, connState, socketRoom, sockRooms, now, envLog, created>>
       ELSE LET roomId == v.v.roomId
                dir == getOrCreate(rooms, disk, roomId)
                userId == IF v.v.clientId # "" THEN v.v.clientId ELSE c
            IN  \E color \in pickColor(dir[roomId]) :
                LET room == addUser(dir[roomId], c, userId, color, v.v.mode)
                    user == [userId |-> userId, color |-> color, mode |-> v.v.mode]
                    snap == getSnapshot(room.drawing)
                IN  /\ rooms' = [dir EXCEPT ![roomId] = room]
                    /\ created' = IF roomId \in DOMAIN rooms THEN created
                                  ELSE [created EXCEPT ![roomId] = @ + 1]
                    /\ socketRoom' = [socketRoom EXCEPT ![c] = <<roomId>>]
                    /\ sockRooms' = [sockRooms EXCEPT ![c] = @ \cup {roomId}]
                    /\ out' = [ev |-> "join", conn |-> c,
                               ack |-> << [ok |-> TRUE, roomId |-> roomId, user |-> user] >>,
                               sync |-> << [roomId |-> roomId, seq |-> room.seq,
                                            users |-> listUsers(room),
                                            strokes |-> snap.strokes,
                                            undone |-> snap.undone,
                                            inProgress |-> snap.inProgress] >>,
                               env |-> <<>>,
                               note |-> << [t |-> "user_joined", user |-> user,
                                            to |-> Members(roomId) \ {c}] >>]
                    /\ UNCHANGED <<disk, connState, now, envLog>>

\* mutant: undo and redo are not counted as writes
isWriteStrokesOnly(op) == op.t \in {"stroke_start", "stroke_points", "stroke_end"}

\* the ops a view-mode user may not send
isWrite(op) == op.t \in {"stroke_start", "stroke_points", "stroke_end", "undo", "redo"}

\* socket.on("msg")
Msg(c, raw) ==
    /\ connState[c] = "open"
    /\ IF socketRoom[c] = <<>>
       THEN /\ out' = Quiet("msg", c, <<[ok |-> FALSE, err |-> "not joined"]>>)
            /\ UNCHANGED <<rooms, disk, envLog>>
       ELSE LET roomId == socketRoom[c][1] IN
       IF roomId \notin DOMAIN rooms
       THEN /\ out' = Quiet("msg", c, <<[ok |-> FALSE, err |-> "room missing"]>>)
            /\ UNCHANGED <<rooms, disk, envLog>>
       ELSE LET room == rooms[roomId] IN
       IF c \notin DOMAIN room.users
       THEN /\ out' = Quiet("msg", c, <<[ok |-> FALSE, err |-> "user missing"]>>)
            /\ UNCHANGED <<rooms, disk, envLog>>
       ELSE LET user == room.users[c]
                v == validateClientOp(raw)
            IN
       IF ~v.ok
       THEN /\ out' = Quiet("msg", c, <<[ok |-> FALSE, err |-> v.err]>>)
            /\ UNCHANGED <<rooms, disk, envLog>>
       ELSE LET op == v.v IN
       IF isWrite(op) /\ user.mode = "view"
       THEN /\ out' = Quiet("msg", c, <<[ok |-> FALSE, err |-> "view-only user cannot modify canvas"]>>)
            /\ UNCHANGED <<rooms, disk, envLog>>
       ELSE LET applied == applyClientOp(room.drawing, user.userId, op) IN
       IF ~applied.ok
       THEN /\ out' = Quiet("msg", c, <<[ok |-> FALSE, err |-> applied.err]>>)
            /\ UNCHANGED <<rooms, disk, envLog>>
       ELSE IF applied.broadcast = <<>>
       THEN /\ rooms' = [rooms EXCEPT ![roomId].drawing = applied.d]
            /\ out' = Quiet("msg", c, <<[ok |-> TRUE, noOp |-> TRUE]>>)
            /\ UNCHANGED <<disk, envLog>>
       ELSE LET bumped == bumpSeq([room EXCEPT !.drawing = applied.d])
                env == [seq |-> bumped.seq, op |-> applied.broadcast[1], by |-> user.userId,
                        inc |-> created[roomId], conn |-> c]
                saved == maybePersist(bumped, disk, roomId, now)
            IN  /\ rooms' = [rooms EXCEPT ![roomId] = saved.room]
                /\ disk' = saved.files
                /\ envLog' = [envLog EXCEPT ![roomId] = Append(@, env)]
                /\ out' = [ev |-> "msg", conn |-> c,
                           ack |-> << [ok |-> TRUE, seq |-> bumped.seq] >>,
                           sync |-> <<>>, env |-> <<env>>,
                           note |-> << [t |-> "op", to |-> Members(roomId)] >>]
    /\ UNCHANGED <<connState, socketRoom, sockRooms, now, created>>

\* socket.on("disconnect"); socket.io has the socket leave its broadcast rooms
Disconnect(c) ==
    /\ connState[c] = "open"
    /\ connState' = [connState EXCEPT ![c] = "closed"]
    /\ sockRooms' = [sockRooms EXCEPT ![c] = {}]
    /\ IF socketRoom[c] = <<>> \/ socketRoom[c][1] \notin DOMAIN rooms
       THEN /\ out' = Quiet("disconnect", c, <<>>)
            /\ UNCHANGED rooms
       ELSE LET roomId == socketRoom[c][1]
                room == rooms[roomId]
                left == removeUser(room, c)
            IN  /\ rooms' = cleanup([rooms EXCEPT ![roomId] = left], roomId)
                /\ out' = [ev |-> "disconnect", conn |-> c, ack |-> <<>>, sync |-> <<>>,
                           env |-> <<>>,
                           note |-> IF c \in DOMAIN room.users
                                    THEN << [t |-> "user_left",
                                             userId |-> room.users[c].userId,
                                             to |-> Members(roomId) \ {c}] >>
                                    ELSE <<>>]
    /\ UNCHANGED <<disk, socketRoom, now, envLog, created>>

\* the wall clock advances
Tick ==
    /\ now < StartTime + MaxTicks * TickMs
    /\ now' = now + TickMs
    /\ UNCHANGED <<rooms, disk, connState, socketRoom, sockRooms, envLog, created, out>>

\* the bounds of the model on a msg request: seq and point lists stay small
WithinBounds(c, raw, maxSeq) ==
    /\ socketRoom[c] # <<>> /\ socketRoom[c][1] \in DOMAIN rooms =>
          rooms[socketRoom[c][1]].seq < maxSeq
    /\ \A r \in DOMAIN rooms :
          raw.t = "stroke_points" /\ raw.strokeId \in DOMAIN rooms[r].drawing.strokes =>
             Len(rooms[r].drawing.strokes[raw.strokeId].points) + Len(raw.pts) <= MaxPts

\* the server alone: nothing is put on the wire
NoNet == UNCHANGED <<inbox, client>>

Next ==
    \/ \E c \in Conns, raw \in RawJoins : Join(c, raw) /\ NoNet
    \/ \E c \in Conns, raw \in RawOps(LifeStrokeIds) :
          WithinBounds(c, raw, MaxSeq) /\ Msg(c, raw) /\ NoNet
    \/ \E c \in Conns : Disconnect(c) /\ NoNet
    \/ Tick /\ NoNet

Spec == Init /\ [][Next]_vars

\* the drawing state under every interleaving of ops of two editors of one room
NextDraw ==
    \/ \E c \in Conns, raw \in DrawJoins : socketRoom[c] = <<>> /\ Join(c, raw) /\ NoNet
    \/ \E c \in Conns, raw \in RawOps(StrokeIds) :
          WithinBounds(c, raw, DrawMaxSeq) /\ Msg(c, raw) /\ NoNet

SpecDraw == Init /\ [][NextDraw]_vars

ClientOps ==
    RawStarts(LifeStrokeIds) \cup RawPoints(LifeStrokeIds) \cup RawEnds(LifeStrokeIds)
        \cup {[t |-> "undo"], [t |-> "redo"]}

\* socket.on("msg") when saveRoom throws inside maybePersist: the envelope has been
\* emitted, lastPersistAt has been set, and the exception leaves the handler before
\* the ack
MsgSaveFails(c, raw, fault) ==
    /\ connState[c] = "open"
    /\ socketRoom[c] # <<>>
    /\ socketRoom[c][1] \in DOMAIN rooms
    /\ c \in DOMAIN rooms[socketRoom[c][1]].users
    /\ validateClientOp(raw).ok
    /\ LET roomId == socketRoom[c][1]
           room == rooms[roomId]
           user == room.users[c]
           op == validateClientOp(raw).v
           applied == applyClientOp(room.drawing, user.userId, op)
       IN  /\ ~(isWrite(op) /\ user.mode = "view")
           /\ applied.ok /\ applied.broadcast # <<>>
           /\ now - room.lastPersistAt >= PersistEveryMs
           /\ LET bumped == bumpSeq([room EXCEPT !.drawing = applied.d])
                  env == [seq |-> bumped.seq, op |-> applied.broadcast[1],
                          by |-> user.userId, inc |-> created[roomId], conn |-> c]
              IN  /\ rooms' = [rooms EXCEPT ![roomId] = [bumped EXCEPT !.lastPersistAt = now]]
                  /\ disk' = saveRoomFails(disk, roomId,
                                           exportPersisted(bumped.drawing, bumped.seq), fault)
                  /\ envLog' = [envLog EXCEPT ![roomId] = Append(@, env)]
                  /\ out' = [ev |-> "msg", conn |-> c, ack |-> <<>>, sync |-> <<>>,
                             env |-> <<env>>,
                             note |-> << [t |-> "op", to |-> Members(roomId)] >>]
    /\ UNCHANGED <<connState, socketRoom, sockRooms, now, created>>

\* the last handler was left by an exception
Threw == out.ev \in {"join", "msg"} /\ out.ack = <<>>

\* the uncaught exception ends the process and the server is started again: the
\* rooms in memory are gone, the files stay, and the clients connect with new
\* sockets (which take the names of the old ones)
Restart ==
    /\ Threw
    /\ \A r \in RoomIds : created[r] < MaxBoots
    /\ rooms' = EmptyMap
    /\ connState' = [c \in Conns |-> "open"]
    /\ socketRoom' = [c \in Conns |-> <<>>]
    /\ sockRooms' = [c \in Conns |-> {}]
    /\ out' = Quiet("restart", "", <<>>)
    /\ UNCHANGED <<disk, now, envLog, created>>

FaultOps ==
    RawStarts(LifeStrokeIds) \cup RawEnds(LifeStrokeIds) \cup {[t |-> "undo"]}

\* the snapshot write may fail, and the process may go down with it
NextFault ==
    \/ \E c \in Conns, raw \in DrawJoins : socketRoom[c] = <<>> /\ Join(c, raw) /\ NoNet
    \/ \E c \in Conns, raw \in FaultOps :
          WithinBounds(c, raw, FaultMaxSeq) /\ Msg(c, raw) /\ NoNet
    \/ \E c \in Conns, raw \in FaultOps, fault \in {"write", "rename"} :
          WithinBounds(c, raw, FaultMaxSeq) /\ MsgSaveFails(c, raw, fault) /\ NoNet
    \/ Restart /\ NoNet
    \/ Tick /\ NoNet

SpecFault == Init /\ [][NextFault]_vars

\* what the snapshot file of a room may hold when the server boots: nothing, a text
\* that is not JSON, JSON that is not an object, objects that lack fields, a snapshot
InitialFiles ==
    {Garbage, NonObject,
     JSONstringify([seq |-> 2]),
     JSONstringify([seq |-> 2, strokes |-> <<>>, undone |-> <<>>]),
     JSONstringify([strokes |-> <<>>, committedOrder |-> <<>>, redoStack |-> <<>>]),
     JSONstringify([seq |-> 2, strokes |-> <<>>, undone |-> <<>>,
                    committedOrder |-> <<>>, redoStack |-> <<>>])}

InitBoot ==
    /\ rooms = EmptyMap
    /\ disk \in {EmptyMap} \cup {(roomPath(RoomA) :> text) : text \in InitialFiles}
    /\ connState = [c \in Conns |-> "open"]
    /\ socketRoom = [c \in Conns |-> <<>>]
    /\ sockRooms = [c \in Conns |-> {}]
    /\ now = StartTime
    /\ envLog = [r \in RoomIds |-> <<>>]
    /\ created = [r \in RoomIds |-> 0]
    /\ out = Quiet("boot", "", <<>>)
    /\ inbox = [c \in Conns |-> {}]
    /\ client = [c \in Conns |-> NewClient]

\* the server boots over a data directory it did not write
NextBoot ==
    \/ \E c \in Conns, raw \in DrawJoins : socketRoom[c] = <<>> /\ Join(c, raw) /\ NoNet
    \/ \E c \in Conns, raw \in ClientOps :
          WithinBounds(c, raw, FaultMaxSeq) /\ Msg(c, raw) /\ NoNet
    \/ \E c \in Conns : Disconnect(c) /\ NoNet
    \/ Restart /\ NoNet

SpecBoot == InitBoot /\ [][NextBoot]_vars

\* the joins of SpecRooms: either room, edit mode, no clientId
RoomsJoins == [roomId : BothRooms, mode : {"edit"}, clientId : {""}]

RoomsOps == RawStarts(LifeStrokeIds) \cup RawEnds(LifeStrokeIds)

InitRooms ==
    /\ rooms = EmptyMap
    /\ disk = EmptyMap
    /\ connState = [c \in Conns |-> "open"]
    /\ socketRoom = [c \in Conns |-> <<>>]
    /\ sockRooms = [c \in Conns |-> {}]
    /\ now = StartTime
    /\ envLog = [r \in BothRooms |-> <<>>]
    /\ created = [r \in BothRooms |-> 0]
    /\ out = Quiet("boot", "", <<>>)
    /\ inbox = [c \in Conns |-> {}]
    /\ client = [c \in Conns |-> NewClient]

\* two rooms: a socket may join one room and then the other
NextRooms ==
    \/ \E c \in Conns, raw \in RoomsJoins : Join(c, raw) /\ NoNet
    \/ \E c \in Conns, raw \in RoomsOps :
          WithinBounds(c, raw, RoomsMaxSeq) /\ Msg(c, raw) /\ NoNet
    \/ \E c \in Conns : Disconnect(c) /\ NoNet

SpecRooms == InitRooms /\ [][NextRooms]_vars

\* the joins of SpecIdent: edit mode, with or without a clientId
IdentJoins == [roomId : RoomIds, mode : {"edit"}, clientId : {"", "u"}]

IdentOps == RawStarts(LifeStrokeIds) \cup RawEnds(LifeStrokeIds)

\* a clientId is held by one socket at a time: a browser presents its clientId on
\* a new socket only when no other open socket is in a room under that userId
OneSocketPerIdentity(c, raw) ==
    raw.clientId # "" =>
       \A r \in DOMAIN rooms : \A c2 \in DOMAIN rooms[r].users :
          (c2 # c /\ connState[c2] = "open") => rooms[r].users[c2].userId # raw.clientId

\* users that name themselves: userId is the clientId of the join payload
NextIdent ==
    \/ \E c \in Conns, raw \in IdentJoins :
          OneSocketPerIdentity(c, raw) /\ Join(c, raw) /\ NoNet
    \/ \E c \in Conns, raw \in IdentOps :
          WithinBounds(c, raw, IdentMaxSeq) /\ Msg(c, raw) /\ NoNet
    \/ \E c \in Conns : Disconnect(c) /\ NoNet
    \/ Tick /\ NoNet

SpecIdent == Init /\ [][NextIdent]_vars

\* cursor payloads: one with numbers, one without x
RawCursors == << [x |-> 3, y |-> 4], [y |-> 4] >>

\* typeof raw.x === "number" && typeof raw.y === "number"
CursorOk(raw) ==
    /\ "x" \in DOMAIN raw /\ isNum(raw.x)
    /\ "y" \in DOMAIN raw /\ isNum(raw.y)

\* mutant: the frame is sent with io.to(roomId), which reaches the sender too
CursorEcho(c, raw) ==
    /\ connState[c] = "open"
    /\ IF \/ socketRoom[c] = <<>>
          \/ ~CursorOk(raw)
          \/ socketRoom[c][1] \notin DOMAIN rooms
          \/ c \notin DOMAIN rooms[socketRoom[c][1]].users
       THEN out' = Quiet("cursor", c, <<>>)
       ELSE out' = [ev |-> "cursor", conn |-> c, ack |-> <<>>, sync |-> <<>>, env |-> <<>>,
                    note |-> << [t |-> "cursor",
                                 userId |-> rooms[socketRoom[c][1]].users[c].userId,
                                 x |-> raw.x, y |-> raw.y,
                                 to |-> Members(socketRoom[c][1])] >>]
    /\ UNCHANGED <<rooms, disk, connState, socketRoom, sockRooms, now, envLog, created>>

\* socket.on("cursor"): socket.to(roomId) reaches the room without the sender
Cursor(c, raw) ==
    /\ connState[c] = "open"
    /\ IF \/ socketRoom[c] = <<>>
          \/ ~CursorOk(raw)
          \/ socketRoom[c][1] \notin DOMAIN rooms
          \/ c \notin DOMAIN rooms[socketRoom[c][1]].users
       THEN out' = Quiet("cursor", c, <<>>)
       ELSE out' = [ev |-> "cursor", conn |-> c, ack |-> <<>>, sync |-> <<>>, env |-> <<>>,
                    note |-> << [t |-> "cursor",
                                 userId |-> rooms[socketRoom[c][1]].users[c].userId,
                                 x |-> raw.x, y |-> raw.y,
                                 to |-> Members(socketRoom[c][1]) \ {c}] >>]
    /\ UNCHANGED <<rooms, disk, connState, socketRoom, sockRooms, now, envLog, created>>

\* cursor messages next to joins, ops and disconnects of one room
NextCursor ==
    \/ \E c \in Conns, raw \in RawJoins : Join(c, raw) /\ NoNet
    \/ \E c \in Conns, raw \in FaultOps :
          WithinBounds(c, raw, CursorMaxSeq) /\ Msg(c, raw) /\ NoNet
    \/ \E c \in Conns, i \in DOMAIN RawCursors : Cursor(c, RawCursors[i]) /\ NoNet
    \/ \E c \in Conns : Disconnect(c) /\ NoNet

SpecCursor == Init /\ [][NextCursor]_vars

\* the lengths of the stroke_points requests of SpecBatch, around the cap
BatchLens == {1, MaxBatch - 1, MaxBatch, MaxBatch + 1, MaxBatch + BatchOver}

\* a request of n points; point i is [i, n], so a point tells its place in the
\* request and the length of the request
RawBatch(id, n) ==
    [t |-> "stroke_points", strokeId |-> id, pts |-> [i \in 1..n |-> <<i, n>>]]

RawBatches == {RawBatch(id, n) : id \in LifeStrokeIds, n \in BatchLens}

\* the seq bound of SpecBatch
BatchBounds(c) ==
    socketRoom[c] # <<>> /\ socketRoom[c][1] \in DOMAIN rooms =>
       rooms[socketRoom[c][1]].seq < BatchMaxSeq

\* one stroke that grows by batches of up to 250 points
NextBatch ==
    \/ \E c \in Conns, raw \in DrawJoins : socketRoom[c] = <<>> /\ Join(c, raw) /\ NoNet
    \/ \E c \in Conns, raw \in RawStarts(LifeStrokeIds) :
          BatchBounds(c) /\ Msg(c, raw) /\ NoNet
    \/ \E c \in Conns, raw \in RawBatches : BatchBounds(c) /\ Msg(c, raw) /\ NoNet

SpecBatch == Init /\ [][NextBatch]_vars

\* as many sockets as the palette has colours, in the order they connect
PaletteConns == <<"c1", "c2", "c3", "c4", "c5", "c6", "c7", "c8", "c9", "c10">>

InitColors ==
    /\ rooms = EmptyMap
    /\ disk = EmptyMap
    /\ connState = [c \in Range(PaletteConns) |-> "open"]
    /\ socketRoom = [c \in Range(PaletteConns) |-> <<>>]
    /\ sockRooms = [c \in Range(PaletteConns) |-> {}]
    /\ now = StartTime
    /\ envLog = [r \in RoomIds |-> <<>>]
    /\ created = [r \in RoomIds |-> 0]
    /\ out = Quiet("boot", "", <<>>)
    /\ inbox = [c \in Conns |-> {}]
    /\ client = [c \in Conns |-> NewClient]

\* the sockets join for the first time in the order they connected
JoinsInOrder(i) ==
    socketRoom[PaletteConns[i]] = <<>> =>
       \A j \in 1..(i - 1) : socketRoom[PaletteConns[j]] # <<>>

\* a room that fills up to the size of the palette; the first socket may repeat
\* its join, the second may disconnect
NextColors ==
    \/ \E i \in DOMAIN PaletteConns, raw \in DrawJoins :
          /\ JoinsInOrder(i)
          /\ socketRoom[PaletteConns[i]] # <<>> => i = 1
          /\ Join(PaletteConns[i], raw) /\ NoNet
    \/ Disconnect(PaletteConns[2]) /\ NoNet

SpecColors == InitColors /\ [][NextColors]_vars

\* Store.userJoined
userJoined(st, user) == [st EXCEPT !.users = (user.userId :> user) @@ @]

\* Store.userLeft
userLeft(st, userId) == [st EXCEPT !.users = Restrict(@, DOMAIN @ \ {userId})]

\* the client of socket c after the frames that handler output o sent to it: the
\* sync frame to the joiner, user_joined and user_left to the others of the room
Notified(cl, c, o) ==
    IF o.sync # <<>> /\ o.conn = c THEN onSync(cl, o.sync[1])
    ELSE IF o.note # <<>> /\ c \in o.note[1].to /\ o.note[1].t = "user_joined"
    THEN [cl EXCEPT !.state = userJoined(@, o.note[1].user)]
    ELSE IF o.note # <<>> /\ c \in o.note[1].to /\ o.note[1].t = "user_left"
    THEN [cl EXCEPT !.state = userLeft(@, o.note[1].userId)]
    ELSE cl

\* the frames of a handler reach every client before the next handler runs
Notify ==
    /\ client' = [c \in Conns |-> Notified(client[c], c, out')]
    /\ UNCHANGED inbox

\* joins, with or without a clientId, and disconnects; each client follows the
\* user list
NextPresence ==
    \/ \E c \in Conns, raw \in IdentJoins : Join(c, raw) /\ Notify
    \/ \E c \in Conns : Disconnect(c) /\ Notify

SpecPresence == Init /\ [][NextPresence]_vars

\* the frames the handler that produced o put on the wire for socket c:
\* socket.emit("sync", ...) to the joining socket, io.to(roomId).emit("op", env)
\* to every member of the room
Frames(c, o) ==
    (IF o.sync # <<>> /\ o.conn = c THEN {[t |-> "sync", body |-> o.sync[1]]} ELSE {})
    \cup (IF o.env # <<>> /\ c \in o.note[1].to
          THEN {[t |-> "op", body |-> o.env[1]]} ELSE {})

\* the sockets whose browser side is followed; the clients do not act on each
\* other, so the others are left out
Watched == {"c2"}

Emit ==
    /\ inbox' = [c \in Conns |-> IF c \in Watched THEN inbox[c] \cup Frames(c, out')
                                  ELSE inbox[c]]
    /\ UNCHANGED client

\* the transport hands frame f to the client of socket c, in any order; keep: the
\* frame, an envelope, will arrive once more
Deliver(c, f, keep) ==
    /\ connState[c] = "open"
    /\ f \in inbox[c]
    /\ keep => f.t = "op"
    /\ inbox' = [inbox EXCEPT ![c] = IF keep THEN @ ELSE @ \ {f}]
    /\ client' = [client EXCEPT ![c] = IF f.t = "sync" THEN onSync(@, f.body)
                                        ELSE handleEnvelope(@, f.body)]
    /\ UNCHANGED <<rooms, disk, connState, socketRoom, sockRooms, now, envLog, created, out>>

\* two editors of one room and their clients behind a transport that reorders and
\* duplicates
NextClient ==
    \/ \E c \in Conns, raw \in DrawJoins :
          socketRoom[c] = <<>> /\ Join(c, raw) /\ Emit
    \/ \E c \in Conns, raw \in ClientOps :
          WithinBounds(c, raw, ClientMaxSeq) /\ Msg(c, raw) /\ Emit
    \/ \E c \in Watched : \E f \in inbox[c], keep \in BOOLEAN : Deliver(c, f, keep)

SpecClient == Init /\ [][NextClient]_vars

----------------------------------------------------------------------------
(* Properties *)

NoOpAck == [ok |-> TRUE, noOp |-> TRUE]

\* the connection is joined in edit mode to a room in memory
CanWrite(c) ==
    /\ connState[c] = "open"
    /\ socketRoom[c] # <<>>
    /\ socketRoom[c][1] \in DOMAIN rooms
    /\ c \in DOMAIN rooms[socketRoom[c][1]].users
    /\ rooms[socketRoom[c][1]].users[c].mode = "edit"

\* the step broadcast exactly one envelope in room r, which stayed in memory
Broadcast(r) ==
    /\ r \in DOMAIN rooms /\ r \in DOMAIN rooms'
    /\ Len(envLog'[r]) = Len(envLog[r]) + 1
    /\ SubSeq(envLog'[r], 1, Len(envLog[r])) = envLog[r]

\* C1: the envelopes one Room object broadcasts carry consecutive seqs: each
\* envelope's seq is the previous envelope's seq + 1, with no gap and no repeat,
\* whatever accepted, rejected and no-op requests were handled in between.
C1_ConsecutiveSeq ==
    \A r \in RoomIds : \A i \in 1..(Len(envLog[r]) - 1) :
        envLog[r][i].inc = envLog[r][i + 1].inc =>
            envLog[r][i + 1].seq = envLog[r][i].seq + 1

\* three envelopes of one Room object, the last one followed by a rejected request
C1_Witness ==
    \E r \in RoomIds :
        /\ Len(envLog[r]) >= 3
        /\ \A i \in DOMAIN envLog[r] : envLog[r][i].inc = envLog[r][1].inc
        /\ out.ev = "msg" /\ out.ack # <<>> /\ ~out.ack[1].ok

\* C2: over the whole life of a room id, eviction and re-hydration included, the
\* envelopes of the room id carry strictly increasing seqs and no sync frame carries
\* a seq below a seq an earlier envelope of the room id carried.
C2_SeqNeverRewinds ==
    \A r \in RoomIds :
        /\ \A i, j \in DOMAIN envLog[r] : i < j => envLog[r][i].seq < envLog[r][j].seq
        /\ out.sync # <<>> /\ out.sync[1].roomId = r =>
              \A i \in DOMAIN envLog[r] : envLog[r][i].seq <= out.sync[1].seq

\* undo: no entry of committedOrder is active; redo: no entry of redoStack is
\* committed and undone
NoTarget(d, t) ==
    IF t = "undo"
    THEN \A i \in DOMAIN d.committedOrder : d.committedOrder[i] \in d.undone
    ELSE \A i \in DOMAIN d.redoStack :
            ~(d.redoStack[i] \in d.committed /\ d.redoStack[i] \in d.undone)

\* C3: an undo or redo request that finds no target leaves seq, the envelope log and
\* the committed and undone sets as they were, and is acknowledged {ok, noOp}.
C3_NoOpChangesNothing ==
    [][\A c \in Conns, raw \in {[t |-> "undo"], [t |-> "redo"]} :
          (/\ CanWrite(c)
           /\ NoTarget(rooms[socketRoom[c][1]].drawing, raw.t)
           /\ Msg(c, raw))
          => LET r == socketRoom[c][1] IN
             /\ rooms'[r].seq = rooms[r].seq
             /\ envLog' = envLog
             /\ rooms'[r].drawing.committed = rooms[r].drawing.committed
             /\ rooms'[r].drawing.undone = rooms[r].drawing.undone
             /\ out'.env = <<>>
             /\ out'.ack = <<NoOpAck>>]_vars

\* a no-op undo was just acknowledged in a room whose only committed stroke is undone
C3_Witness ==
    /\ out.ev = "msg" /\ out.ack = <<NoOpAck>>
    /\ \E r \in DOMAIN rooms :
          /\ out.conn \in DOMAIN rooms[r].users
          /\ rooms[r].drawing.undone # {}
          /\ rooms[r].drawing.undone = rooms[r].drawing.committed

\* the drawing states of the rooms in memory
Drawings == {rooms[r].drawing : r \in DOMAIN rooms}

\* the last request was a msg that was rejected
Rejected == out.ev = "msg" /\ out.ack # <<>> /\ ~out.ack[1].ok

\* C4: a stroke id is in committedOrder iff it is in the committed set iff its
\* stroke record exists with committed = true, after accepted and rejected ops alike.
C4_CommittedAgree ==
    \A d \in Drawings : \A id \in StrokeIds :
        /\ (id \in Range(d.committedOrder)) <=> (id \in d.committed)
        /\ (id \in d.committed) <=> (id \in DOMAIN d.strokes /\ d.strokes[id].committed)

\* one stroke committed, another in progress, and the last request was rejected
C4_Witness ==
    /\ Rejected
    /\ \E d \in Drawings :
          /\ d.committed # {}
          /\ \E id \in DOMAIN d.strokes : ~d.strokes[id].committed

\* C5: committedOrder has no duplicates, and every step of a room in memory leaves
\* the old committedOrder a prefix of the new one (append-only, nothing removed or
\* reordered).
C5_OrderAppendOnly ==
    /\ [](\A d \in Drawings : \A i, j \in DOMAIN d.committedOrder :
             i # j => d.committedOrder[i] # d.committedOrder[j])
    /\ [][\A r \in DOMAIN rooms \cap DOMAIN rooms' :
             IsPrefix(rooms[r].drawing.committedOrder, rooms'[r].drawing.committedOrder)]_vars

\* two strokes committed, one of them undone: the order still lists both
C5_Witness ==
    \E d \in Drawings : Len(d.committedOrder) = 2 /\ Cardinality(d.undone) = 1

\* C6: the undone set is a subset of the committed set.
C6_UndoneCommitted == \A d \in Drawings : d.undone \subseteq d.committed

\* a stroke is undone while another stroke is in progress
C6_Witness ==
    \E d \in Drawings :
        /\ d.undone # {}
        /\ \E id \in DOMAIN d.strokes : ~d.strokes[id].committed

\* C7: every id on the redoStack is committed and currently undone.
C7_RedoStackUndone ==
    \A d \in Drawings : Range(d.redoStack) \subseteq (d.committed \cap d.undone)

\* two undone strokes wait on the redo stack
C7_Witness == \E d \in Drawings : Len(d.redoStack) = 2

\* C8: once a stroke record is committed, no step changes it: points, tool, color,
\* width, owner and the committed flag stay as they are under every later request.
C8_CommittedImmutable ==
    [][\A r \in DOMAIN rooms \cap DOMAIN rooms' :
          \A id \in DOMAIN rooms[r].drawing.strokes :
             rooms[r].drawing.strokes[id].committed =>
                /\ id \in DOMAIN rooms'[r].drawing.strokes
                /\ rooms'[r].drawing.strokes[id] = rooms[r].drawing.strokes[id]]_vars

\* a request against an already committed stroke was just rejected
C8_Witness ==
    /\ Rejected
    /\ out.ack[1].err \in {"stroke already committed", "strokeId already exists"}
    /\ \E d \in Drawings : d.committed # {}

\* the entries of committedOrder that are active and have only undone entries after them
LatestActive(d) ==
    {d.committedOrder[i] : i \in {k \in DOMAIN d.committedOrder :
        /\ d.committedOrder[k] \notin d.undone
        /\ \A j \in DOMAIN d.committedOrder : j > k => d.committedOrder[j] \in d.undone}}

\* C9: a broadcast undo targets the last entry of committedOrder that is not undone,
\* adds it to undone, pushes it on redoStack and is broadcast as {t: undo, strokeId}.
C9_UndoTargetsLatest ==
    [][\A r \in RoomIds :
          (Broadcast(r) /\ Last(envLog'[r]).op.t = "undo") =>
             LET e == Last(envLog'[r])
                 d == rooms[r].drawing
                 d2 == rooms'[r].drawing
             IN  /\ e.op = [t |-> "undo", strokeId |-> e.op.strokeId]
                 /\ e.op.strokeId \in LatestActive(d)
                 /\ d2.undone = d.undone \cup {e.op.strokeId}
                 /\ d2.redoStack = Append(d.redoStack, e.op.strokeId)
                 /\ out'.env = <<e>>]_vars

\* a user undid the older of two strokes, authored by another user, the newer one
\* being undone already
C9_Witness ==
    /\ out.env # <<>> /\ out.env[1].op.t = "undo"
    /\ \E d \in Drawings :
          /\ Len(d.committedOrder) = 2
          /\ out.env[1].op.strokeId = d.committedOrder[1]
          /\ d.strokes[d.committedOrder[1]].userId # out.env[1].by
          /\ d.undone = d.committed

\* the envelopes of log that the Room object numbered inc broadcast
RECURSIVE OfInc(_, _)
OfInc(log, inc) ==
    IF log = <<>> THEN <<>>
    ELSE IF Head(log).inc = inc THEN <<Head(log)>> \o OfInc(Tail(log), inc)
    ELSE OfInc(Tail(log), inc)

\* scanning log[1..i] backwards: the target of the most recent undo that no later
\* redo answered, as a sequence of length 1; <<>> when a stroke was committed since,
\* or when there is none
RECURSIVE PendingUndo(_, _, _)
PendingUndo(log, i, skip) ==
    IF i = 0 THEN <<>>
    ELSE IF log[i].op.t = "stroke_end" THEN <<>>
    ELSE IF log[i].op.t = "redo" THEN PendingUndo(log, i - 1, skip + 1)
    ELSE IF log[i].op.t = "undo"
         THEN IF skip = 0 THEN <<log[i].op.strokeId>> ELSE PendingUndo(log, i - 1, skip - 1)
    ELSE PendingUndo(log, i - 1, skip)

\* C10: a broadcast redo re-activates exactly the stroke targeted by the most recent
\* undo of this Room object that has not been redone yet, no stroke having been
\* committed since that undo (last undone, first redone).
C10_RedoLastUndone ==
    [][\A r \in RoomIds :
          (Broadcast(r) /\ Last(envLog'[r]).op.t = "redo") =>
             LET e == Last(envLog'[r])
                 mine == OfInc(envLog[r], e.inc)
                 pending == PendingUndo(mine, Len(mine), 0)
             IN  pending # <<>> =>
                    /\ e.op.strokeId = pending[1]
                    /\ rooms'[r].drawing.undone = rooms[r].drawing.undone \ {pending[1]}]_vars

\* two undos, then a redo: it re-activated the stroke of the second undo
C10_Witness ==
    \E r \in RoomIds :
        LET n == Len(envLog[r]) IN
        /\ n >= 3
        /\ envLog[r][n].op.t = "redo"
        /\ envLog[r][n - 1].op.t = "undo"
        /\ envLog[r][n - 2].op.t = "undo"
        /\ envLog[r][n].op.strokeId = envLog[r][n - 1].op.strokeId
        /\ r \in DOMAIN rooms
        /\ rooms[r].drawing.undone = {envLog[r][n - 2].op.strokeId}

\* a stroke was committed by this Room object and every undo broadcast since then
\* has been answered by a redo
CommitSinceUndo(r) ==
    LET mine == OfInc(envLog[r], created[r]) IN
    /\ \E i \in DOMAIN mine : mine[i].op.t = "stroke_end"
    /\ PendingUndo(mine, Len(mine), 0) = <<>>

\* C11: a broadcast stroke_end leaves the redo stack empty, and from then on, until
\* another undo is broadcast, every redo request is a no-op: it is acknowledged
\* {ok, noOp}, no envelope is broadcast and the room is left as it was.
C11_CommitClearsRedo ==
    [][/\ \A r \in RoomIds :
             (Broadcast(r) /\ Last(envLog'[r]).op.t = "stroke_end") =>
                rooms'[r].drawing.redoStack = <<>>
       /\ \A c \in Conns :
             (/\ CanWrite(c)
              /\ CommitSinceUndo(socketRoom[c][1])
              /\ Msg(c, [t |-> "redo"]))
             => /\ out'.ack = <<NoOpAck>>
                /\ out'.env = <<>>
                /\ envLog' = envLog
                /\ rooms' = rooms]_vars

\* a stroke was undone, another stroke was committed, and the redo that followed
\* the commit was a no-op
C11_Witness ==
    /\ out.ev = "msg" /\ out.ack = <<NoOpAck>>
    /\ \E r \in DOMAIN rooms :
          LET n == Len(envLog[r]) IN
          /\ n >= 2
          /\ envLog[r][n].op.t = "stroke_end"
          /\ \E i \in 1..(n - 1) : envLog[r][i].op.t = "undo"
          /\ rooms[r].drawing.undone # {}
          /\ rooms[r].drawing.redoStack = <<>>

\* C12: a broadcast stroke_start or stroke_points leaves committed, committedOrder,
\* undone and redoStack as they were; an in-progress stroke never clears the redo
\* stack.
C12_InProgressFrame ==
    [][\A r \in RoomIds :
          (Broadcast(r) /\ Last(envLog'[r]).op.t \in {"stroke_start", "stroke_points"}) =>
             LET d == rooms[r].drawing
                 d2 == rooms'[r].drawing
             IN  /\ d2.committed = d.committed
                 /\ d2.committedOrder = d.committedOrder
                 /\ d2.undone = d.undone
                 /\ d2.redoStack = d.redoStack]_vars

\* a stroke was extended while an undone stroke waits on the redo stack
C12_Witness ==
    /\ out.env # <<>> /\ out.env[1].op.t = "stroke_points"
    /\ \E d \in Drawings : d.redoStack # <<>> /\ d.undone # {}

\* the strokes that are drawn: committed and not undone
Active(d) == d.committed \ d.undone

\* the drawing state after the request op of userId, accepted or not
After(d, userId, op) == applyClientOp(d, userId, op).d

\* C13 as stated: whenever an undo request is handled, a redo request that follows
\* it immediately leaves the set of active strokes as it was before the undo
\* request.
C13_UndoRedoAnyState ==
    [][\A c \in Conns :
          (CanWrite(c) /\ Msg(c, [t |-> "undo"])) =>
             LET r == socketRoom[c][1]
                 u == rooms[r].users[c].userId
             IN  Active(After(rooms'[r].drawing, u, [t |-> "redo"])) =
                    Active(rooms[r].drawing)]_vars

\* C13: in a room with at least one active stroke, an undo request followed
\* immediately by a redo request leaves the set of active strokes as it was before
\* the undo.
C13_UndoRedoRestores ==
    [][\A c \in Conns :
          (/\ CanWrite(c)
           /\ Active(rooms[socketRoom[c][1]].drawing) # {}
           /\ Msg(c, [t |-> "undo"])) =>
             LET r == socketRoom[c][1]
                 u == rooms[r].users[c].userId
             IN  /\ Active(rooms'[r].drawing) # Active(rooms[r].drawing)
                 /\ Active(After(rooms'[r].drawing, u, [t |-> "redo"])) =
                       Active(rooms[r].drawing)]_vars

\* an undo and the redo that followed it, while an older undone stroke stays undone
C13_Witness ==
    \E r \in DOMAIN rooms :
        LET n == Len(envLog[r]) IN
        /\ n >= 3
        /\ envLog[r][n].op.t = "redo"
        /\ envLog[r][n - 1].op.t = "undo"
        /\ envLog[r][n - 2].op.t = "undo"
        /\ Cardinality(Active(rooms[r].drawing)) = 1
        /\ Cardinality(rooms[r].drawing.undone) = 1

\* n undo requests in a row, then n redo requests in a row
RECURSIVE Undos(_, _)
Undos(d, n) == IF n = 0 THEN d ELSE Undos(After(d, "u", [t |-> "undo"]), n - 1)

RECURSIVE Redos(_, _)
Redos(d, n) == IF n = 0 THEN d ELSE Redos(After(d, "u", [t |-> "redo"]), n - 1)

\* C14: from every state whose redo stack is empty, as it is after a sequence of
\* commits, N undo requests followed by N redo requests restore the set of active
\* strokes, for every N from 0 to MaxN, beyond the number of committed strokes too.
C14_NUndoNRedo ==
    \A d \in Drawings :
        d.redoStack = <<>> =>
           \A n \in 0..MaxN :
              /\ Active(Redos(Undos(d, n), n)) = Active(d)
              /\ n >= Cardinality(Active(d)) => Active(Undos(d, n)) = {}

\* two strokes were committed, then one undo and one redo: both are active again
C14_Witness ==
    \E r \in DOMAIN rooms :
        LET n == Len(envLog[r])
            d == rooms[r].drawing
        IN  /\ n >= 3
            /\ envLog[r][n].op.t = "redo"
            /\ envLog[r][n - 1].op.t = "undo"
            /\ envLog[r][n - 2].op.t = "stroke_end"
            /\ Cardinality(Active(d)) = 2
            /\ d.redoStack = <<>>

\* stroke id is unknown, committed or owned by another user
BadTarget(d, userId, id) ==
    \/ id \notin DOMAIN d.strokes
    \/ d.strokes[id].committed
    \/ d.strokes[id].userId # userId

\* C15: a stroke_points or stroke_end whose stroke id is unknown, already committed
\* or owned by a different userId is rejected: the ack is {ok: false}, the room
\* (drawing state and seq), the envelope log and the snapshot files are unchanged
\* and no envelope is emitted.
C15_BadTargetRejected ==
    [][\A c \in Conns, raw \in RawPoints(StrokeIds) \cup RawEnds(StrokeIds) :
          (/\ CanWrite(c)
           /\ BadTarget(rooms[socketRoom[c][1]].drawing,
                        rooms[socketRoom[c][1]].users[c].userId, raw.strokeId)
           /\ Msg(c, raw))
          => /\ rooms' = rooms
             /\ envLog' = envLog
             /\ disk' = disk
             /\ out'.env = <<>> /\ out'.note = <<>>
             /\ out'.ack # <<>> /\ ~out'.ack[1].ok]_vars

\* a request on another user's in-progress stroke was just rejected
C15_Witness ==
    /\ Rejected
    /\ out.ack[1].err = "stroke owned by another user"
    /\ \E d \in Drawings : \E id \in DOMAIN d.strokes :
          ~d.strokes[id].committed /\ d.strokes[id].userId # out.conn

\* C16: a stroke_start whose stroke id already exists, in progress or committed,
\* owned by anyone, is rejected with "strokeId already exists"; the existing record,
\* the rest of the room, the envelope log and the snapshot files stay as they were.
C16_DuplicateStartFails ==
    [][\A c \in Conns, raw \in RawStarts(StrokeIds) :
          (/\ CanWrite(c)
           /\ raw.strokeId \in DOMAIN rooms[socketRoom[c][1]].drawing.strokes
           /\ Msg(c, raw))
          => /\ rooms' = rooms
             /\ envLog' = envLog
             /\ disk' = disk
             /\ out'.env = <<>>
             /\ out'.ack = <<[ok |-> FALSE, err |-> "strokeId already exists"]>>]_vars

\* a stroke_start on the id of another user's extended in-progress stroke was
\* just rejected
C16_Witness ==
    /\ Rejected
    /\ out.ack[1].err = "strokeId already exists"
    /\ \E d \in Drawings : \E id \in DOMAIN d.strokes :
          /\ ~d.strokes[id].committed
          /\ d.strokes[id].userId # out.conn
          /\ Len(d.strokes[id].points) = 2
          /\ d.committed # {}

\* the connection is joined in view mode to a room in memory
IsViewer(c) ==
    /\ connState[c] = "open"
    /\ socketRoom[c] # <<>>
    /\ socketRoom[c][1] \in DOMAIN rooms
    /\ c \in DOMAIN rooms[socketRoom[c][1]].users
    /\ rooms[socketRoom[c][1]].users[c].mode = "view"

\* C17: a msg request of a connection whose user record has mode view changes
\* neither the rooms (drawing state, seq) nor the envelope log nor the snapshot
\* files and emits nothing but a failed ack; a well-formed stroke_start,
\* stroke_points, stroke_end, undo or redo is answered with the view-only error.
C17_ViewerCannotWrite ==
    [][\A c \in Conns, raw \in RawOps(LifeStrokeIds) :
          (IsViewer(c) /\ Msg(c, raw)) =>
             /\ rooms' = rooms
             /\ envLog' = envLog
             /\ disk' = disk
             /\ out'.env = <<>> /\ out'.note = <<>>
             /\ out'.ack # <<>> /\ ~out'.ack[1].ok
             /\ validateClientOp(raw).ok =>
                   out'.ack[1].err = "view-only user cannot modify canvas"]_vars

\* a viewer's request was refused while an editor's committed stroke could have been
\* undone
C17_Witness ==
    /\ Rejected
    /\ out.ack[1].err = "view-only user cannot modify canvas"
    /\ IsViewer(out.conn)
    /\ \E d \in Drawings : Active(d) # {}

\* C18: the envelopes a client hands to its mirror since its last sync frame are
\* the room's envelopes number sync.seq + 1, sync.seq + 2, ... in that order, each
\* once, whatever the order of arrival and however often a frame arrives; the next
\* seq the client waits for follows the last one applied.
C18_AppliedInOrder ==
    \A c \in Watched :
        LET cl == client[c] IN
        /\ cl.expectedSeq = cl.base + Len(cl.applied) + 1
        /\ \A i \in DOMAIN cl.applied :
              /\ cl.applied[i].seq = cl.base + i
              /\ cl.state.roomId # <<>>
              /\ cl.base + i \in DOMAIN envLog[cl.state.roomId[1]]
              /\ cl.applied[i] = envLog[cl.state.roomId[1]][cl.base + i]

\* a late joiner applied an envelope, holds a later one in its buffer because the
\* one in between has not arrived, and the applied one is about to arrive again
C18_Witness ==
    \E c \in Watched :
        LET cl == client[c] IN
        /\ cl.base >= 1
        /\ cl.applied # <<>>
        /\ cl.expectedSeq + 1 \in DOMAIN cl.pending
        /\ \E f \in inbox[c] : f.t = "op" /\ f.body.seq < cl.expectedSeq
        /\ \E f \in inbox[c] : f.t = "op" /\ f.body.seq = cl.expectedSeq

\* the mirror of a client in the shape of the server's snapshot view
Mirror(st) ==
    [strokes |-> {st.strokes[id] : id \in DOMAIN st.strokes},
     undone |-> st.undone,
     inProgress |-> {st.inProgress[id] : id \in DOMAIN st.inProgress}]

\* C19: a client that has applied its sync frame and every envelope up to the
\* room's current seq holds a mirror equal to the server's snapshot view: the same
\* committed strokes with the same points, the same in-progress strokes, the same
\* undone set. All such clients therefore hold equal mirrors.
C19_MirrorConverges ==
    \A c \in Watched :
        LET st == client[c].state IN
        (/\ st.roomId # <<>>
         /\ st.roomId[1] \in DOMAIN rooms
         /\ st.seq = rooms[st.roomId[1]].seq)
        => Mirror(st) = getSnapshot(rooms[st.roomId[1]].drawing)

\* a late joiner whose sync frame carried an in-progress stroke has caught up
\* through the commit and the undo of that stroke
C19_Witness ==
    \E c \in Watched :
        LET cl == client[c] IN
        /\ cl.state.roomId # <<>>
        /\ cl.state.seq = rooms[cl.state.roomId[1]].seq
        /\ cl.base >= 1
        /\ Len(cl.applied) >= 2
        /\ cl.state.undone # {}
        /\ \E id \in DOMAIN cl.state.strokes : Len(cl.state.strokes[id].points) = 2

\* C20, as the state it promises: once the sync frame and every envelope sent to a
\* joined client have been delivered (nothing is left on the wire), the client has
\* applied every envelope up to the room's current seq and holds none in its buffer.
C20_NothingLost ==
    \A c \in Watched :
        (/\ socketRoom[c] # <<>>
         /\ socketRoom[c][1] \in DOMAIN rooms
         /\ inbox[c] = {})
        => /\ client[c].expectedSeq = rooms[socketRoom[c][1]].seq + 1
           /\ client[c].pending = EmptyMap

\* the mirror a client holds after applying the envelopes of log in order
RECURSIVE Replay(_, _)
Replay(st, log) ==
    IF log = <<>> THEN st ELSE Replay(applyEnvelope(st, Head(log)), Tail(log))

\* the sync frame is the cut of log at its seq: it carries the seq of the last
\* envelope (0 if there is none) and the state the envelopes produce
CutOf(sync, log) ==
    /\ sync.seq = (IF log = <<>> THEN 0 ELSE Last(log).seq)
    /\ [strokes |-> sync.strokes, undone |-> sync.undone, inProgress |-> sync.inProgress]
          = Mirror(Replay(NewState, log))

\* every open socket whose current room is r receives the envelope of this step
SentToJoined(r) ==
    Broadcast(r) =>
       \A c \in Conns :
          (connState[c] = "open" /\ socketRoom[c] = <<r>>) => c \in out'.note[1].to

CommittedOnly(d) == [d EXCEPT !.strokes = Restrict(@, d.committed)]

\* C22: for every reachable drawing state D and every seq n, writing
\* exportPersisted(n) through saveRoom and constructing a Room from the file gives
\* seq n and a drawing state equal to D without its in-progress strokes: the same
\* committed strokes and undone set and no in-progress stroke under the snapshot
\* view, the same committedOrder and redoStack.
C22_PersistRoundTrip ==
    \A r \in DOMAIN rooms : \A n \in 0..MaxSeq :
        LET d == rooms[r].drawing
            files == saveRoom(disk, r, exportPersisted(d, n))
            restored == NewRoom(files, r)
        IN  /\ ~NewRoomThrows(files, r)
            /\ restored.seq = n
            /\ restored.drawing = CommittedOnly(d)
            /\ getSnapshot(restored.drawing).strokes = getSnapshot(d).strokes
            /\ getSnapshot(restored.drawing).undone = getSnapshot(d).undone
            /\ getSnapshot(restored.drawing).inProgress = {}
            /\ restored.drawing.committedOrder = d.committedOrder
            /\ restored.drawing.redoStack = d.redoStack

\* a Room was constructed from a snapshot file that carries an undone stroke on the
\* redo stack
C22_Witness ==
    \E r \in DOMAIN rooms :
        /\ created[r] >= 2
        /\ \A i \in DOMAIN envLog[r] : envLog[r][i].inc < created[r]
        /\ rooms[r].drawing.undone # {}
        /\ rooms[r].drawing.redoStack # <<>>
        /\ rooms[r].seq = 3

\* C23: the sync frame of the first join after a room's first eviction reports what
\* the room held when it was evicted, which is what its envelopes produced: the seq
\* of the last envelope, the committed strokes, the undone set, and no in-progress
\* stroke.
C23_RestartDurable ==
    (/\ out.ev = "join" /\ out.sync # <<>>
     /\ created[out.sync[1].roomId] = 2
     /\ envLog[out.sync[1].roomId] # <<>>
     /\ \A i \in DOMAIN envLog[out.sync[1].roomId] : envLog[out.sync[1].roomId][i].inc = 1)
    => LET sync == out.sync[1]
           log == envLog[sync.roomId]
           atEviction == Mirror(Replay(NewState, log))
       IN  /\ sync.seq = Last(log).seq
           /\ sync.strokes = atEviction.strokes
           /\ sync.undone = atEviction.undone
           /\ sync.inProgress = {}

\* the stroke ids of a drawing state that are not committed
InProgressIds(d) == {id \in DOMAIN d.strokes : ~d.strokes[id].committed}

\* the final path of room r was written by this step
Written(r) ==
    /\ roomPath(r) \in DOMAIN disk'
    /\ roomPath(r) \notin DOMAIN disk \/ disk'[roomPath(r)] # disk[roomPath(r)]

\* C24: every snapshot file holds stroke records with committed = true only, one per
\* entry of its committedOrder, and no stroke that is in progress when the file is
\* written is among its strokes or in its committedOrder.
C24_SnapshotCommittedOnly ==
    /\ [](\A fp \in DOMAIN disk :
             /\ disk[fp].kind = "json" /\ disk[fp].obj
             /\ LET p == disk[fp].v IN
                /\ \A i \in DOMAIN p.strokes : p.strokes[i].committed
                /\ [i \in DOMAIN p.strokes |-> p.strokes[i].id] = p.committedOrder)
    /\ [][\A r \in RoomIds :
             (Written(r) /\ r \in DOMAIN rooms') =>
                LET p == disk'[roomPath(r)].v IN
                InProgressIds(rooms'[r].drawing)
                   \cap ({p.strokes[i].id : i \in DOMAIN p.strokes} \cup Range(p.committedOrder))
                   = {}]_vars

\* the snapshot of the room's current seq was written while a stroke is in progress
C24_Witness ==
    \E r \in DOMAIN rooms :
        /\ roomPath(r) \in DOMAIN disk
        /\ disk[roomPath(r)].v.seq = rooms[r].seq
        /\ InProgressIds(rooms[r].drawing) # {}
        /\ Len(rooms[r].drawing.strokes[CHOOSE id \in InProgressIds(rooms[r].drawing) : TRUE].points) = 2

\* C25: every msg request is answered by exactly one ack, and a request whose
\* envelope was broadcast is answered {ok: true, seq} with the envelope's seq, also
\* when the snapshot write inside maybePersist fails.
C25_SenderInformed ==
    out.ev = "msg" =>
       /\ Len(out.ack) = 1
       /\ out.env # <<>> => out.ack = <<[ok |-> TRUE, seq |-> out.env[1].seq]>>

\* C26: whatever the snapshot file of the room holds, a well-formed join request is
\* acknowledged {ok: true} and the room is in memory afterwards.
C26_RoomBoots ==
    out.ev = "join" =>
       /\ out.ack # <<>> /\ out.ack[1].ok
       /\ out.ack[1].roomId \in DOMAIN rooms

\* the final snapshot paths of the rooms
FinalPaths == {roomPath(r) : r \in RoomIds}

\* the text is one complete snapshot
CompleteSnapshot(text) ==
    /\ text.kind = "json" /\ text.obj
    /\ DOMAIN text.v = {"seq", "strokes", "undone", "committedOrder", "redoStack"}

\* C27: a final snapshot path holds no file or one complete snapshot; a step that
\* changes it puts there the whole snapshot of the room at that step; a saveRoom
\* call that is cut short, in the write of the temp file or before the rename,
\* leaves every final path as it was.
C27_AtomicWrite ==
    /\ [](\A fp \in FinalPaths : fp \in DOMAIN disk => CompleteSnapshot(disk[fp]))
    /\ [][\A r \in RoomIds :
             Written(r) =>
                /\ r \in DOMAIN rooms'
                /\ disk'[roomPath(r)] =
                      JSONstringify(exportPersisted(rooms'[r].drawing, rooms'[r].seq))]_vars
    /\ [][Threw' => \A fp \in FinalPaths :
                       /\ (fp \in DOMAIN disk') = (fp \in DOMAIN disk)
                       /\ fp \in DOMAIN disk => disk'[fp] = disk[fp]]_vars

\* the process went down in the middle of a temp-file write: the torn temp file is
\* on disk next to the complete snapshot of an earlier save
C27_Witness ==
    /\ out.ev = "restart"
    /\ \E r \in RoomIds :
          /\ roomPath(r) \in DOMAIN disk
          /\ TmpPath(roomPath(r)) \in DOMAIN disk
          /\ disk[TmpPath(roomPath(r))] = Torn
          /\ disk[roomPath(r)].v.seq >= 1

\* the ids of the strokes for which log holds an envelope of type t
IdsOf(log, t) == {log[i].op.strokeId : i \in {j \in DOMAIN log : log[j].op.t = t}}

\* the frame reports nothing but what the envelopes of log produced: a seq no
\* larger than their number, committed strokes that one of them ended, in-progress
\* strokes that one of them started
OwnHistory(sync, log) ==
    /\ sync.seq <= Len(log)
    /\ \A s \in sync.strokes : s.id \in IdsOf(log, "stroke_end")
    /\ \A s \in sync.inProgress : s.id \in IdsOf(log, "stroke_start")

\* C28: the seq and the strokes a room reports in a sync frame come from the
\* envelopes of that room alone, whatever happened in a room with another id, also
\* after the room was evicted and re-hydrated from disk.
C28_RoomsIndependent ==
    out.sync # <<>> => OwnHistory(out.sync[1], envLog[out.sync[1].roomId])

\* every room in the directory has an open socket bound to it
AllRoomsBound ==
    \A r \in DOMAIN rooms :
       \E c \in Conns : connState[c] = "open" /\ socketRoom[c] = <<r>>

\* C29: after a disconnect has been processed, the directory holds a room only
\* if a still-connected socket is bound to it.
C29_EvictedWhenEmpty ==
    out.ev = "disconnect" => AllRoomsBound

\* the socket over which the stroke id was started: the sender of the last
\* stroke_start envelope for id in log
Starter(log, id) ==
    LET starts == {i \in DOMAIN log : log[i].op.t = "stroke_start" /\ log[i].op.strokeId = id}
    IN  log[CHOOSE i \in starts : \A j \in starts : j <= i].conn

\* this step commits the in-progress stroke id of room r
Commits(r, id) ==
    /\ r \in DOMAIN rooms /\ id \in InProgressIds(rooms[r].drawing)
    /\ r \in DOMAIN rooms' /\ id \in rooms'[r].drawing.committed

\* C30: a stroke is committed only while the connection it was started over is
\* still open; once that connection is lost, no later join or op of any
\* connection commits the stroke, and no snapshot written holds it.
C30_LostStrokeNeverCommitted ==
    [][\A r \in RoomIds : \A id \in StrokeIds :
          Commits(r, id) => connState[Starter(envLog[r], id)] = "open"]_vars

\* C31: a cursor message changes neither seq, the drawing state, the user table
\* nor the files; it is forwarded only when its sender is joined, and then to the
\* sockets of the other users of the sender's room, never to the sender.
C31_CursorNoEffect ==
    [][out'.ev = "cursor" =>
          /\ rooms' = rooms /\ disk' = disk /\ envLog' = envLog
          /\ socketRoom[out'.conn] = <<>> => out'.note = <<>>
          /\ out'.note # <<>> =>
                /\ out'.conn \notin out'.note[1].to
                /\ out'.note[1].to =
                      DOMAIN rooms[socketRoom[out'.conn][1]].users \ {out'.conn}]_vars

\* a cursor frame was forwarded to the other user of a room that has a snapshot
C31_Witness ==
    /\ out.ev = "cursor" /\ out.note # <<>>
    /\ out.note[1].to # {}
    /\ disk # EmptyMap

\* room r stays in memory over this step
Live(r) == r \in DOMAIN rooms /\ r \in DOMAIN rooms'

\* C32: a snapshot of a live room is written only when at least 2000 ms have
\* passed since the previous write of that room (lastPersistAt, which changes only
\* when the room writes), and a msg handled inside the window writes nothing.
C32_PersistThrottled ==
    [][\A r \in RoomIds :
          /\ Written(r) =>
                /\ Live(r)
                /\ now - rooms[r].lastPersistAt >= PersistEveryMs
                /\ rooms'[r].lastPersistAt = now
          /\ (Live(r) /\ rooms'[r].lastPersistAt # rooms[r].lastPersistAt) => Written(r)
          /\ (Live(r) /\ now - rooms[r].lastPersistAt < PersistEveryMs) => disk' = disk]_vars

\* the second snapshot of a live room was written 2000 ms after the first; the op
\* between the two was handled inside the window
C32_Witness ==
    \E r \in DOMAIN rooms :
        /\ created[r] = 1
        /\ rooms[r].lastPersistAt = StartTime + PersistEveryMs
        /\ roomPath(r) \in DOMAIN disk
        /\ disk[roomPath(r)].v.seq = 3

\* what the msg handler does with request raw of the owner of an in-progress
\* stroke of drawing d: the validated op applied to d
Handled(d, raw) ==
    applyClientOp(d, d.strokes[raw.strokeId].userId, validateClientOp(raw).v)

\* new is old followed by the first min(200, n) points of pts, in order
FirstAppended(old, pts, new) ==
    LET k == Min(MaxBatch, Len(pts)) IN
    /\ Len(new) = Len(old) + k
    /\ \A i \in 1..Len(old) : new[i] = old[i]
    /\ \A i \in 1..k : new[Len(old) + i] = pts[i]

\* C33: a stroke_points request of the owner appends its first 200 points (all of
\* them if it has at most 200), in order, to the stroke, and the envelope carries
\* exactly the points appended.
C33_BatchCapped ==
    /\ [](\A d \in Drawings : \A raw \in RawBatches :
             raw.strokeId \in InProgressIds(d) =>
                LET a == Handled(d, raw) IN
                /\ validateClientOp(raw).ok /\ a.ok
                /\ FirstAppended(d.strokes[raw.strokeId].points, raw.pts,
                                 a.d.strokes[raw.strokeId].points)
                /\ FirstAppended(<<>>, raw.pts, a.broadcast[1].pts))
    /\ [][\A r \in RoomIds : \A id \in LifeStrokeIds :
             (Broadcast(r) /\ id \in InProgressIds(rooms[r].drawing)
                /\ out'.env[1].op.t = "stroke_points") =>
                /\ Len(out'.env[1].op.pts) <= MaxBatch
                /\ rooms'[r].drawing.strokes[id].points =
                      rooms[r].drawing.strokes[id].points \o out'.env[1].op.pts]_vars

\* a request of 250 points was applied: the stroke ends with its 200th point
C33_Witness ==
    \E d \in Drawings : \E id \in InProgressIds(d) :
        /\ Len(d.strokes[id].points) = MaxBatch + 1
        /\ Last(d.strokes[id].points) = <<MaxBatch, MaxBatch + BatchOver>>

\* C34: in every room of at most ten users the users have pairwise distinct
\* colours, whatever joins (repeated ones included) and disconnects came before.
C34_DistinctColors ==
    \A r \in DOMAIN rooms :
       Cardinality(DOMAIN rooms[r].users) <= PaletteSize =>
          \A a, b \in DOMAIN rooms[r].users :
             a # b => rooms[r].users[a].color # rooms[r].users[b].color

\* C35: an op envelope is delivered only to sockets that are bound to the room it
\* was broadcast in; a socket that went on to another room receives none of the
\* envelopes of the room it came from.
C35_EnvelopesOfOwnRoom ==
    (out.ev = "msg" /\ out.env # <<>>) =>
       \A c \in out.note[1].to : socketRoom[c] = socketRoom[out.conn]

\* C36: every snapshot written for a room is the cut at the envelope just
\* broadcast: its seq is that envelope's seq, and its strokes, committedOrder,
\* undone and redoStack are those of the drawing state right after that
\* envelope's op was applied.
C36_SnapshotConsistentCut ==
    [][\A r \in RoomIds :
          Written(r) =>
             LET snap == disk'[roomPath(r)].v
                 d == rooms'[r].drawing
             IN  /\ Broadcast(r)
                 /\ snap.seq = Last(envLog'[r]).seq
                 /\ snap.seq = rooms'[r].seq
                 /\ d = applyClientOp(rooms[r].drawing, Last(envLog'[r]).by,
                                      Last(envLog'[r]).op).d
                 /\ snap.committedOrder = d.committedOrder
                 /\ snap.redoStack = d.redoStack
                 /\ Range(snap.undone) = d.undone
                 /\ {st.id : st \in Range(snap.strokes)} = d.committed
                 /\ \A st \in Range(snap.strokes) : st = d.strokes[st.id]]_vars

\* a snapshot taken right after an undo: seq 3, one committed stroke, undone and
\* on the redo stack
C36_Witness ==
    \E r \in RoomIds :
        /\ roomPath(r) \in DOMAIN disk
        /\ disk[roomPath(r)].v.seq = 3
        /\ Len(disk[roomPath(r)].v.undone) = 1
        /\ disk[roomPath(r)].v.redoStack = disk[roomPath(r)].v.committedOrder

\* C37: the top of a non-empty redoStack is committed and undone, so a redo is a
\* no-op exactly when the redoStack is empty; otherwise it pops the top entry
\* alone and re-activates that stroke.
C37_RedoNoOpIffEmpty ==
    \A d \in Drawings :
       LET a == applyRedo(d) IN
       /\ (a.broadcast = <<>>) <=> (d.redoStack = <<>>)
       /\ d.redoStack # <<>> =>
             /\ Last(d.redoStack) \in d.committed \cap d.undone
             /\ a.broadcast = << [t |-> "redo", strokeId |-> Last(d.redoStack)] >>
             /\ a.d.redoStack = Front(d.redoStack)
             /\ a.d.undone = d.undone \ {Last(d.redoStack)}

\* after two undos and a redo the redoStack still holds one entry
C37_Witness ==
    \E r \in DOMAIN rooms :
        /\ envLog[r] # <<>> /\ Last(envLog[r]).op.t = "redo"
        /\ Len(rooms[r].drawing.redoStack) = 1
        /\ Cardinality(rooms[r].drawing.undone) = 1

\* in log, stroke s was undone and, before any redo of s, another stroke was
\* committed: s was in undone at the moment of that commit
Sealed(log, s) ==
    \E i, j \in DOMAIN log :
       /\ i < j
       /\ log[i].op.t = "undo" /\ log[i].op.strokeId = s
       /\ log[j].op.t = "stroke_end" /\ log[j].op.strokeId # s
       /\ \A k \in (i + 1)..(j - 1) : ~(log[k].op.t = "redo" /\ log[k].op.strokeId = s)

\* C38: a stroke that is in undone when another stroke commits is in undone in
\* every later state of the room, whatever ops any user sends.
C38_UndoneStaysUndone ==
    \A r \in DOMAIN rooms : \A s \in StrokeIds :
       Sealed(envLog[r], s) =>
          s \in rooms[r].drawing.undone /\ s \in rooms[r].drawing.committed

\* after the commit that sealed a stroke, the other stroke was undone and redone
C38_Witness ==
    \E r \in DOMAIN rooms : \E s \in StrokeIds :
        /\ Sealed(envLog[r], s)
        /\ Last(envLog[r]).op.t = "redo"
        /\ rooms[r].drawing.undone = {s}

\* the userIds in the user table of room
UserIdsOf(room) == {room.users[c].userId : c \in DOMAIN room.users}

\* C39: once the sync, user_joined and user_left frames are delivered, the user
\* list of the client of every connected socket holds exactly the userIds of the
\* user table of the room the socket is bound to, also when two sockets joined
\* with one clientId and one of them disconnects.
C39_UserListMatches ==
    \A c \in Conns :
       (connState[c] = "open" /\ socketRoom[c] # <<>> /\ socketRoom[c][1] \in DOMAIN rooms) =>
          DOMAIN client[c].state.users = UserIdsOf(rooms[socketRoom[c][1]])

\* every buffered seq is greater than expectedSeq and keys its own envelope
Ahead(cl) ==
    \A k \in DOMAIN cl.pending : k > cl.expectedSeq /\ cl.pending[k].seq = k

\* the sync frame a join of room r is answered with in this state
SyncNow(r) ==
    LET snap == getSnapshot(rooms[r].drawing) IN
    [roomId |-> r, seq |-> rooms[r].seq, users |-> listUsers(rooms[r]),
     strokes |-> snap.strokes, undone |-> snap.undone, inProgress |-> snap.inProgress]

\* C40: after every sync frame or envelope a client has handled, each sequence
\* number in its reorder buffer is greater than expectedSeq; this holds in every
\* state a client reaches, and after it handles, in such a state, the sync frame
\* of a new join or any envelope of the room, in whatever order they arrive.
C40_BufferAhead ==
    \A c \in Conns :
       /\ Ahead(client[c])
       /\ \A r \in DOMAIN rooms :
             /\ Ahead(onSync(client[c], SyncNow(r)))
             /\ \A i \in DOMAIN envLog[r] : Ahead(handleEnvelope(client[c], envLog[r][i]))

\* envelopes 1 and 2 are applied and envelope 4 waits for envelope 3
C40_Witness ==
    \E c \in Conns :
        /\ client[c].expectedSeq = 3
        /\ DOMAIN client[c].pending = {4}
        /\ Len(client[c].applied) = 2

====
